---- MODULE Spec2Model ----
(***************************************************************************)
(* State-machine model of the CTA bus tracker client                       *)
(* (src/src/lib/bus/ctaBusClient.ts): the process-wide response cache, the *)
(* in-flight registry, the retry loop of fetchWithRetry, the soft-error    *)
(* classifier, and callBusApi / invalidateBusCache operating on them.      *)
(*                                                                         *)
(* One callBusApi invocation is split at its suspension points:            *)
(*   callBusApi      the synchronous prefix (validation, cache check,      *)
(*                   in-flight check, launch of the first attempt and      *)
(*                   registration of the in-flight promise);               *)
(*   fetchWithRetry  one upstream attempt settles (response or exception); *)
(*                   the loop retries or leaves;                           *)
(*   readBody        response.json() settles; envelope check, soft-error   *)
(*                   classification, result construction, cache write;     *)
(*   finallyRelease  the .finally callback deletes the registry entry and  *)
(*                   the shared promise (the one .finally returned, which  *)
(*                   leader and joiners hold) settles.                     *)
(* JavaScript runs each of these to completion, so each is one action.  A  *)
(* caller of a shared fetch has its outcome once the fetch is "done".      *)
(***************************************************************************)
EXTENDS Integers, Sequences, FiniteSets, TLC

(***************************************************************************)
(* Bounds of the model.                                                    *)
(***************************************************************************)
MaxCalls == 3          \* callBusApi invocations in one behaviour
MaxTime == 2           \* last value of the clock (Date.now())
MaxTtl == 1            \* largest cacheTtlMs a caller passes
MaxRetriesOpt == 1     \* largest explicit maxRetries a caller passes

(***************************************************************************)
(* Program constants.                                                      *)
(***************************************************************************)
DEFAULT_MAX_RETRIES == 2
DEFAULT_STATUS == 502

Undefined == "undefined"

CacheKeys == {"k1", "k2"}
\* An optional number is a set: empty when the caller leaves it undefined.

(***************************************************************************)
(* Text.  A message is a tuple of one-character strings, so that the       *)
(* regular expressions of SOFT_ERROR_PATTERNS (literal text, flag i) are   *)
(* evaluated as case-insensitive substring searches.                       *)
(***************************************************************************)
ToLower ==
    ("A" :> "a") @@ ("B" :> "b") @@ ("C" :> "c") @@ ("D" :> "d") @@ ("E" :> "e") @@
    ("F" :> "f") @@ ("G" :> "g") @@ ("H" :> "h") @@ ("I" :> "i") @@ ("J" :> "j") @@
    ("K" :> "k") @@ ("L" :> "l") @@ ("M" :> "m") @@ ("N" :> "n") @@ ("O" :> "o") @@
    ("P" :> "p") @@ ("Q" :> "q") @@ ("R" :> "r") @@ ("S" :> "s") @@ ("T" :> "t") @@
    ("U" :> "u") @@ ("V" :> "v") @@ ("W" :> "w") @@ ("X" :> "x") @@ ("Y" :> "y") @@
    ("Z" :> "z")

Lower(c) == IF c \in DOMAIN ToLower THEN ToLower[c] ELSE c

\* faulty variant of RegexTestI: the i flag is missing
RegexTestExact(pattern, msg) ==
    \E i \in 0..(Len(msg) - Len(pattern)) :
        \A j \in 1..Len(pattern) : msg[i + j] = pattern[j]

\* pattern.test(msg) for a literal pattern with the i flag
RegexTestI(pattern, msg) ==
    \E i \in 0..(Len(msg) - Len(pattern)) :
        \A j \in 1..Len(pattern) : Lower(msg[i + j]) = Lower(pattern[j])

\* faulty variant of SOFT_ERROR_PATTERNS: "no data found" is not soft
SOFT_ERROR_PATTERNS_NoData ==
    << [test |-> <<"n","o"," ","s","e","r","v","i","c","e"," ","s","c","h","e","d","u","l","e","d">>,
        reason |-> "No service scheduled at this time."],
       [test |-> <<"n","o"," ","a","r","r","i","v","a","l"," ","t","i","m","e","s">>,
        reason |-> "No arrival times available."],
       [test |-> <<"n","o"," ","p","r","e","d","i","c","t","i","o","n","s">>,
        reason |-> "No predictions are currently available."],
       [test |-> <<"n","o"," ","b","u","s","e","s"," ","w","e","r","e"," ","f","o","u","n","d">>,
        reason |-> "No active vehicles found."] >>

SOFT_ERROR_PATTERNS ==
    << [test |-> <<"n","o"," ","d","a","t","a"," ","f","o","u","n","d">>,
        reason |-> "No data found for parameters."],
       [test |-> <<"n","o"," ","s","e","r","v","i","c","e"," ","s","c","h","e","d","u","l","e","d">>,
        reason |-> "No service scheduled at this time."],
       [test |-> <<"n","o"," ","a","r","r","i","v","a","l"," ","t","i","m","e","s">>,
        reason |-> "No arrival times available."],
       [test |-> <<"n","o"," ","p","r","e","d","i","c","t","i","o","n","s">>,
        reason |-> "No predictions are currently available."],
       [test |-> <<"n","o"," ","b","u","s","e","s"," ","w","e","r","e"," ","f","o","u","n","d">>,
        reason |-> "No active vehicles found."] >>

(***************************************************************************)
(* Upstream error objects {code?, msg?} (BusRawError).  A missing or empty  *)
(* msg (both falsy for the classifier) is the empty tuple.                 *)
(***************************************************************************)
MsgNoArrivalTimes == <<"N","o"," ","a","r","r","i","v","a","l"," ","t","i","m","e","s">>
MsgNoDataUpper == <<"N","O"," ","D","A","T","A"," ","F","O","U","N","D">>
MsgInvalidKey ==
    <<"I","n","v","a","l","i","d"," ","A","P","I"," ","a","c","c","e","s","s"," ",
      "k","e","y"," ","s","u","p","p","l","i","e","d">>
MsgOddData == <<"n","o"," ","d","a","t","a",".">>
MsgNoService ==
    <<"N","o"," ","S","e","r","v","i","c","e"," ","S","c","h","e","d","u","l","e","d"," ",
      "t","o","d","a","y">>
MsgNoPredictions ==
    <<"S","t","o","p"," ","h","a","s"," ","n","o"," ","P","R","E","D","I","C","T","I","O","N","S">>
MsgNoBuses == <<"N","o"," ","b","u","s","e","s"," ","w","e","r","e"," ","F","o","u","n","d">>

MsgSymbols == <<"?", "!", "?">>
NoMsg == <<>>

ErrSoftArrivals == [code |-> Undefined, msg |-> MsgNoArrivalTimes]
ErrSoftDataUpper == [code |-> Undefined, msg |-> MsgNoDataUpper]
ErrSoftService == [code |-> Undefined, msg |-> MsgNoService]
ErrSoftPredictions == [code |-> Undefined, msg |-> MsgNoPredictions]
ErrSoftBuses == [code |-> Undefined, msg |-> MsgNoBuses]
ErrHardKey == [code |-> Undefined, msg |-> MsgInvalidKey]
ErrHardCoded == [code |-> "E42", msg |-> MsgOddData]
ErrNoMsg == [code |-> Undefined, msg |-> NoMsg]

\* for (const pattern of SOFT_ERROR_PATTERNS) if (pattern.test.test(err.msg)) return pattern.reason
FirstPatternReason(msg, i) ==
    LET RECURSIVE scan(_)
        scan(n) ==
            IF n > Len(SOFT_ERROR_PATTERNS) THEN Undefined
            ELSE IF RegexTestI(SOFT_ERROR_PATTERNS[n].test, msg)
                 THEN SOFT_ERROR_PATTERNS[n].reason
                 ELSE scan(n + 1)
    IN scan(i)

\* faulty variant of classifySoftError: only the first error is looked at
classifyFirstError(errors) ==
    IF Len(errors) = 0 \/ errors[1].msg = NoMsg THEN Undefined
    ELSE FirstPatternReason(errors[1].msg, 1)

\* classifySoftError: the reason of the first error whose msg matches a
\* pattern; errors without msg are skipped; undefined when none matches.
classifySoftError(errors) ==
    LET RECURSIVE walk(_)
        walk(n) ==
            IF n > Len(errors) THEN Undefined
            ELSE IF errors[n].msg = NoMsg THEN walk(n + 1)
            ELSE LET r == FirstPatternReason(errors[n].msg, 1)
                 IN IF r # Undefined THEN r ELSE walk(n + 1)
    IN walk(1)

(***************************************************************************)
(* Upstream behaviour: what one attempt can end with, and what the body of *)
(* an ok response can be.                                                  *)
(***************************************************************************)
HttpResponse(status) == [kind |-> "response", status |-> status]
Exception(name, network) == [kind |-> "exception", name |-> name, network |-> network]

AbortError == Exception("AbortError", FALSE)      \* controller.abort() after timeoutMs
FetchError == Exception("FetchError", FALSE)
NetworkTypeError == Exception("TypeError", TRUE)  \* message includes "network"
OtherError == Exception("TypeError", FALSE)

AttemptOutcomes ==
    {HttpResponse(200), HttpResponse(503), HttpResponse(400),
     AbortError, FetchError, NetworkTypeError, OtherError}

\* response.ok
ResponseOk(response) == response.status >= 200 /\ response.status <= 299

\* one element of the error array of an envelope
RawError(code, msg) == [code |-> code, msg |-> msg]

\* The error arrays of the model.  Messages for the expressions of
\* CTA_ERROR_MAPPINGS: "Invalid API key" (/api key/i), "Transaction Limit
\* Exceeded" and "daily request limit reached" (rate limit), "Invalid parameter
\* provided", one that matches both /invalid param/i and /api key/i, and one of
\* 66 characters for the cut of deriveCodeFromMessage.
ErrorLists ==
    LET
        MsgApiKey ==
            <<"I","n","v","a","l","i","d"," ","A","P","I"," ","k","e","y">>
        MsgLimitExceeded ==
            <<"T","r","a","n","s","a","c","t","i","o","n"," ","L","i","m","i","t"," ","E","x",
              "c","e","e","d","e","d">>
        MsgDailyLimit ==
            <<"d","a","i","l","y"," ","r","e","q","u","e","s","t"," ","l","i","m","i","t"," ",
              "r","e","a","c","h","e","d">>
        MsgInvalidParam ==
            <<"I","n","v","a","l","i","d"," ","p","a","r","a","m","e","t","e","r"," ","p","r",
              "o","v","i","d","e","d">>
        MsgParamApiKey ==
            <<"I","n","v","a","l","i","d"," ","p","a","r","a","m","e","t","e","r",":"," ","a",
              "p","i"," ","k","e","y">>
        MsgLong ==
            <<"I","n","t","e","r","n","a","l"," ","f","a","i","l","u","r","e"," ","5","0","0",
              " ","w","h","i","l","e"," ","t","h","e"," ","r","e","q","u","e","s","t"," ","f",
              "o","r"," ","s","t","o","p"," ","1","0","0","1"," ","w","a","s"," ","p","r","o",
              "c","e","s","s","e","d">>
        ErrAuth == RawError(Undefined, MsgApiKey)
        ErrAuthCoded == RawError("E42", MsgApiKey)
        ErrLimit == RawError(Undefined, MsgLimitExceeded)
        ErrDailyLimit == RawError(Undefined, MsgDailyLimit)
        ErrParam == RawError(Undefined, MsgInvalidParam)
        ErrParamApiKey == RawError(Undefined, MsgParamApiKey)
        ErrSymbols == RawError(Undefined, MsgSymbols)
        ErrLong == RawError(Undefined, MsgLong)
    IN
    [ empty |-> <<>>,
      softArrivals |-> <<ErrSoftArrivals>>,
      softUpper |-> <<ErrSoftDataUpper>>,
      softService |-> <<ErrSoftService>>,
      softPredictions |-> <<ErrSoftPredictions>>,
      softBuses |-> <<ErrSoftBuses>>,
      hardKey |-> <<ErrHardKey>>,
      hardCoded |-> <<ErrHardCoded>>,
      mixed |-> <<ErrHardKey, ErrSoftArrivals>>,
      softThenHard |-> <<ErrSoftService, ErrHardKey>>,
      noMsg |-> <<ErrNoMsg>>,
      auth |-> <<ErrAuth>>,
      authCoded |-> <<ErrAuthCoded>>,
      limit |-> <<ErrLimit>>,
      dailyLimit |-> <<ErrDailyLimit>>,
      param |-> <<ErrParam>>,
      paramApiKey |-> <<ErrParamApiKey>>,
      authThenParam |-> <<ErrAuth, ErrParam>>,
      limitThenAuth |-> <<ErrLimit, ErrAuth>>,
      otherThenAuth |-> <<ErrHardKey, ErrAuth>>,
      noMsgThenLimit |-> <<ErrNoMsg, ErrDailyLimit>>,
      symbols |-> <<ErrSymbols>>,
      long |-> <<ErrLong>> ]

\* A body: json = FALSE is text that response.json() rejects; envelope = FALSE
\* is JSON without an object under "bustime-response"; error names the
\* envelope's error array ("absent": no error key).
Body(json, envelope, tmst, error) ==
    [json |-> json, envelope |-> envelope, tmst |-> tmst, error |-> error]

Bodies ==
    {Body(FALSE, FALSE, Undefined, "absent"),
     Body(TRUE, FALSE, Undefined, "absent"),
     Body(TRUE, TRUE, "20240101 00:00:00", "absent")}
    \cup {Body(TRUE, TRUE, Undefined, e) : e \in DOMAIN ErrorLists}

DataBody == Body(TRUE, TRUE, "20240101 00:00:00", "absent")

\* the body field of a fetch whose response has not been read
Unread == Body(FALSE, FALSE, Undefined, "unread")

\* parseTimestampToIso: undefined for a missing timestamp
parseTimestampToIso(tmst) == IF tmst = Undefined THEN Undefined ELSE "2024-01-01T00:00:00.000Z"

(***************************************************************************)
(* Results.                                                                *)
(***************************************************************************)
Pending == [kind |-> "pending"]

\* new BusClientError(code, message, options): status defaults to 502
BusClientError(code, message, statusOpt, rawErrors, sourceTimestamp, cause) ==
    [kind |-> "error", name |-> "BusClientError", network |-> FALSE,
     code |-> code, message |-> message,
     status |-> IF statusOpt = {} THEN DEFAULT_STATUS ELSE CHOOSE st \in statusOpt : TRUE,
     rawErrors |-> rawErrors, sourceTimestamp |-> sourceTimestamp, cause |-> cause]

ClientResult(payload, meta) == [kind |-> "success", payload |-> payload, meta |-> meta]

\* faulty variant of toCachedResult: the stored result is returned as it is
toCachedResultPlain(entry) == entry.value

\* toCachedResult: the stored payload, the stored meta with servedFromCache set
toCachedResult(entry) ==
    ClientResult(entry.value.payload, [entry.value.meta EXCEPT !.servedFromCache = TRUE])

(***************************************************************************)
(* Request descriptors and the derived cache key.  options.params is an    *)
(* object: a sequence of [key, value] entries in insertion order, keys     *)
(* distinct.  A value is undefined, null, a string or a number.  A derived *)
(* key is the tuple of the pieces of text the code concatenates.           *)
(***************************************************************************)
VUndefined == [type |-> "undefined"]
VNull == [type |-> "null"]
VString(text) == [type |-> "string", text |-> text]
VNumber(n) == [type |-> "number", n |-> n]

ParamValues == {VUndefined, VNull, VString(""), VString("7"), VNumber(7), VString("a b")}
ParamNames == {"format", "rt", "stpid"}
Endpoint == "getpredictions"

\* process.env.CTA_BUS_RTPIDATAFEED ?? "ctabus"
CTA_BUS_RTPIDATAFEED == "ctabus"

\* value === undefined || value === null || value === ""
IsEmptyValue(value) == value.type \in {"undefined", "null"} \/ value = VString("")

\* typeof value === "number" ? value.toString() : String(value)
ValueText(value) == IF value.type = "number" THEN ToString(value.n) ELSE value.text

\* encodeURIComponent on the texts of the model: the space is escaped
encodeURIComponent(text) == IF text = "a b" THEN "a%20b" ELSE text

Entry(key, value) == [key |-> key, value |-> value]
EntryKeys(entries) == {entries[i].key : i \in 1..Len(entries)}
EntryOf(entries, key) == entries[CHOOSE i \in 1..Len(entries) : entries[i].key = key]

\* normalized[key] = value: a new key is appended, a key already there keeps
\* its place and takes the value
SetEntry(entries, key, value) ==
    IF key \in EntryKeys(entries)
    THEN [i \in 1..Len(entries) |-> IF entries[i].key = key THEN Entry(key, value) ELSE entries[i]]
    ELSE Append(entries, Entry(key, value))

\* normalizeParams: the entries with a value, in insertion order, as text
normalizeParams(params) ==
    LET RECURSIVE walk(_, _)
        walk(i, normalized) ==
            IF i > Len(params) THEN normalized
            ELSE IF IsEmptyValue(params[i].value) THEN walk(i + 1, normalized)
            ELSE walk(i + 1, SetEntry(normalized, params[i].key, ValueText(params[i].value)))
    IN walk(1, <<>>)

\* callBusApi: rtpidatafeed and format are filled in when absent
WithDefaults(normalized) ==
    LET fed == IF "rtpidatafeed" \notin EntryKeys(normalized)
               THEN SetEntry(normalized, "rtpidatafeed", CTA_BUS_RTPIDATAFEED)
               ELSE normalized
    IN IF "format" \notin EntryKeys(fed) THEN SetEntry(fed, "format", "json") ELSE fed

\* the order of Array.prototype.sort() (UTF-16 code units) on the key names
\* of the model
SortOrder == <<"format", "rt", "rtpidatafeed", "stpid">>

\* faulty variant of SortedKeys: Object.keys(params) without .sort()
UnsortedKeys(entries) == [i \in 1..Len(entries) |-> entries[i].key]

\* Object.keys(params).sort()
SortedKeys(entries) == SelectSeq(SortOrder, LAMBDA k : k \in EntryKeys(entries))

\* .map(key => `${key}=${encodeURIComponent(params[key])}`).join("&")
Joined(entries, keys) ==
    LET RECURSIVE join(_)
        join(i) ==
            IF i > Len(keys) THEN <<>>
            ELSE (IF i > 1 THEN <<"&">> ELSE <<>>)
                 \o <<keys[i], "=", encodeURIComponent(EntryOf(entries, keys[i]).value)>>
                 \o join(i + 1)
    IN join(1)

serializeParams(entries) == Joined(entries, SortedKeys(entries))

\* computeCacheKey: the supplied key when there is one, else the endpoint and
\* the serialized parameters
computeCacheKey(endpoint, entries, suppliedCacheKey) ==
    IF suppliedCacheKey # Undefined THEN <<suppliedCacheKey>>
    ELSE LET serialized == serializeParams(entries)
         IN IF Len(serialized) > 0 THEN <<endpoint, "?">> \o serialized ELSE <<endpoint>>

\* the cacheKey callBusApi computes for a request descriptor
DerivedKey(req) == computeCacheKey(req.endpoint, WithDefaults(normalizeParams(req.params)), req.cacheKey)

\* process.env.CTA_BUS_TRACKER_API_KEY, when it is set
CTA_BUS_TRACKER_API_KEY == "s3cret"

\* normalizedParams after lines 262-269
normalizedParams(req) == WithDefaults(normalizeParams(req.params))

\* { ...normalizedParams, key: CTA_BUS_TRACKER_API_KEY, format: "json" }: a new
\* object, which becomes the query string of the upstream URL
requestParams(req) ==
    SetEntry(SetEntry(normalizedParams(req), "key", CTA_BUS_TRACKER_API_KEY), "format", "json")

\* faulty variant of MetaParams: the result reports the parameters sent
MetaParamsSent(req) == requestParams(req)

\* meta.params of a result (and so of the cache entry that stores it)
MetaParams(req) == normalizedParams(req)

\* the params a BusClientError of the call can carry: normalizeParams(params)
\* for a missing required parameter, normalizedParams for what the closure
\* throws; the errors of ensureApiKey and fetchWithRetry carry none
ErrorParams(req) == {normalizeParams(req.params), normalizedParams(req)}

\* the params of a request for stop 7, and of one that names no stop
StopParams == <<Entry("stpid", VString("7"))>>
NoParams == <<>>

RequestOf(params, cacheKey) == [endpoint |-> Endpoint, params |-> params, cacheKey |-> cacheKey]
EmptyRequest == RequestOf(<<>>, Undefined)

(***************************************************************************)
(* State.                                                                  *)
(***************************************************************************)
VARIABLES
    now,               \* Date.now()
    apiKeyConfigured,  \* whether CTA_BUS_TRACKER_API_KEY is set
    responseCache,     \* Map cacheKey -> [value, expiresAt]
    inFlightRequests,  \* Map cacheKey -> the fetch whose promise is registered
    fetches,           \* launched fetches (the async closure of callBusApi), by leader
    calls,             \* callBusApi invocations, in order of issue
    served,            \* history: per key, the cached responses produced since the last invalidation of the key
    failedKeys,        \* history: keys whose last released fetch failed, no request for the key since
    request,           \* the request descriptor (BusRequestOptions) a caller is building
    envelope           \* the last response a route handler sent: HTTP status and body {data, error, meta}

vars == <<now, apiKeyConfigured, responseCache, inFlightRequests, fetches, calls, served, failedKeys,
          request, envelope>>

MapSet(map, key, value) == [x \in DOMAIN map \cup {key} |-> IF x = key THEN value ELSE map[x]]
\* faulty variant of MapDelete: any match empties the map
MapDeleteAll(map, keys) == IF keys \cap DOMAIN map = {} THEN map ELSE << >>
MapDelete(map, keys) == [x \in DOMAIN map \ keys |-> map[x]]

\* no response has been sent
NoResponse == [sent |-> FALSE]

Init ==
    /\ now = 0
    /\ apiKeyConfigured \in BOOLEAN
    /\ responseCache = << >>
    /\ inFlightRequests = << >>
    /\ fetches = << >>
    /\ calls = << >>
    /\ served = [k \in CacheKeys |-> {}]
    /\ failedKeys = {}
    /\ request = EmptyRequest
    /\ envelope = NoResponse

(***************************************************************************)
(* callBusApi, synchronous prefix.                                         *)
(***************************************************************************)
\* the error ensureApiKey throws
ConfigMissingError ==
    BusClientError("CTA_BUS_CONFIG_MISSING", <<"CTA bus tracker API key is not configured.">>,
                   {500}, Undefined, Undefined, Undefined)

\* the error thrown for the required parameter key
BadRequestError(key) ==
    BusClientError("CTA_BUS_BAD_REQUEST", <<"Missing required parameter: ", key>>,
                   {400}, Undefined, Undefined, Undefined)

\* faulty variant of KeyMissing: the credential is not checked
KeyMissingIgnored(configured) == FALSE

\* ensureApiKey: if (!CTA_BUS_TRACKER_API_KEY) throw
KeyMissing(configured) == ~configured

\* options.cacheTtlMs ?? 0
EffectiveTtl(cacheTtlMs) == IF cacheTtlMs = {} THEN 0 ELSE CHOOSE n \in cacheTtlMs : TRUE

\* options.maxRetries ?? DEFAULT_MAX_RETRIES
EffectiveRetries(maxRetries) ==
    IF maxRetries = {} THEN DEFAULT_MAX_RETRIES ELSE CHOOSE n \in maxRetries : TRUE

\* faulty variant of UsesCache: a zero cacheTtlMs caches too
UsesCacheAlways(cacheTtlMs) == cacheTtlMs >= 0

\* if (cacheTtlMs > 0): the guard of the cache lookup and of the cache write
UsesCache(cacheTtlMs) == cacheTtlMs > 0

\* faulty variants of IsFresh: an entry counts as expired one tick early; an entry is
\* still served at its expiry instant
IsFreshEarly(cache, cacheKey, t) == cacheKey \in DOMAIN cache /\ cache[cacheKey].expiresAt > t + 1
IsFreshLate(cache, cacheKey, t) == cacheKey \in DOMAIN cache /\ cache[cacheKey].expiresAt >= t

\* cached && cached.expiresAt > Date.now()
IsFresh(cache, cacheKey, t) == cacheKey \in DOMAIN cache /\ cache[cacheKey].expiresAt > t

\* faulty variant of HasInFlight: the registry is never consulted
HasInFlightNever(registry, cacheKey) == FALSE

\* inFlightRequests.has(cacheKey)
HasInFlight(registry, cacheKey) == cacheKey \in DOMAIN registry

\* faulty variant of RegisterInFlight: the promise is not registered
RegisterNothing(registry, cacheKey, f) == registry

\* inFlightRequests.set(cacheKey, requestPromise)
RegisterInFlight(registry, cacheKey, f) == MapSet(registry, cacheKey, f)

\* the calls for cacheKey whose shared fetch has not settled yet
Unsettled(cacheKey) ==
    {c \in DOMAIN calls :
        /\ calls[c].key = cacheKey
        /\ calls[c].of # 0
        /\ fetches[calls[c].of].phase \in {"fetching", "parsing"}}

CallRecord(key, ttl, mode, of, result) ==
    [key |-> key, ttl |-> ttl, mode |-> mode, of |-> of, result |-> result,
     expect |-> {}, peers |-> {}, stale |-> FALSE, afterFail |-> FALSE, hitFresh |-> TRUE,
     params |-> <<>>, requiredParams |-> <<>>]

\* the record of a call with the parameters its caller passed
Asked(options, rec) ==
    [rec EXCEPT !.params = options.params, !.requiredParams = options.requiredParams]

\* faulty variant of IsMissingValue: an empty string passes
IsMissingValueLax(params, key) ==
    \/ key \notin EntryKeys(params)
    \/ EntryOf(params, key).value.type \in {"undefined", "null"}

\* const value = params[key]; value === undefined || value === null || value === ""
IsMissingValue(params, key) ==
    \/ key \notin EntryKeys(params)
    \/ IsEmptyValue(EntryOf(params, key).value)

\* for (const key of requiredKeys): the first required key without a value,
\* undefined when there is none
FirstMissing(params, requiredParams) ==
    LET RECURSIVE scan(_)
        scan(i) ==
            IF i > Len(requiredParams) THEN Undefined
            ELSE IF IsMissingValue(params, requiredParams[i]) THEN requiredParams[i]
            ELSE scan(i + 1)
    IN scan(1)

\* faulty variant of AfterHit: the hit marks the stored meta and restarts
\* the entry's lifetime
AfterHitTouched(cache, cacheKey, t) ==
    [cache EXCEPT ![cacheKey] =
        [value |-> [@.value EXCEPT !.meta.servedFromCache = TRUE],
         expiresAt |-> t + @.value.meta.cacheTtlMs]]

\* the store after a hit: the lookup only reads (responseCache.get) and
\* toCachedResult spreads the stored meta into a new object
AfterHit(cache, cacheKey, t) == cache

\* the history fields of a call that passed validation, read off the state at issue
Issued(rec) ==
    [rec EXCEPT
        !.expect = IF rec.ttl > 0
                   THEN {r.payload : r \in {x \in served[rec.key] : now < x.cacheExpiresAt}}
                   ELSE {},
        !.peers = Unsettled(rec.key),
        !.stale = /\ rec.key \in DOMAIN responseCache
                  /\ responseCache[rec.key].expiresAt <= now
                  /\ rec.key \notin DOMAIN inFlightRequests,
        !.afterFail = rec.key \in failedKeys,
        !.hitFresh = (rec.mode = "hit") => (responseCache[rec.key].expiresAt > now)]

callBusApi(c, options) ==
    /\ c = Cardinality(DOMAIN calls) + 1
    /\ LET cacheKey == options.cacheKey
           cacheTtlMs == EffectiveTtl(options.cacheTtlMs)
           maxRetries == EffectiveRetries(options.maxRetries)
           missing == FirstMissing(options.params, options.requiredParams)
       IN
       IF KeyMissing(apiKeyConfigured) THEN
           \* ensureApiKey throws
           /\ calls' = MapSet(calls, c, Asked(options, CallRecord(Undefined, cacheTtlMs, "rejected", 0,
                  ConfigMissingError)))
           /\ UNCHANGED <<responseCache, inFlightRequests, fetches, failedKeys>>
       ELSE IF missing # Undefined THEN
           \* a required parameter is undefined, null or empty
           /\ calls' = MapSet(calls, c, Asked(options, CallRecord(Undefined, cacheTtlMs, "rejected", 0,
                  BadRequestError(missing))))
           /\ UNCHANGED <<responseCache, inFlightRequests, fetches, failedKeys>>
       ELSE IF UsesCache(cacheTtlMs) /\ IsFresh(responseCache, cacheKey, now) THEN
           \* return toCachedResult(cached)
           /\ calls' = MapSet(calls, c, Asked(options, Issued(CallRecord(cacheKey, cacheTtlMs, "hit", 0,
                  toCachedResult(responseCache[cacheKey])))))
           /\ failedKeys' = failedKeys \ {cacheKey}
           /\ responseCache' = AfterHit(responseCache, cacheKey, now)
           /\ UNCHANGED <<inFlightRequests, fetches>>
       ELSE IF HasInFlight(inFlightRequests, cacheKey) THEN
           \* return inFlightRequests.get(cacheKey)
           /\ calls' = MapSet(calls, c, Asked(options, Issued(CallRecord(cacheKey, cacheTtlMs, "join",
                  inFlightRequests[cacheKey], Pending))))
           /\ failedKeys' = failedKeys \ {cacheKey}
           /\ UNCHANGED <<responseCache, inFlightRequests, fetches>>
       ELSE
           \* the async closure starts and runs to its first await: attempt 1 is sent
           /\ fetches' = MapSet(fetches, c,
                  [key |-> cacheKey, cacheTtlMs |-> cacheTtlMs, maxRetries |-> maxRetries,
                   attempt |-> 1, phase |-> "fetching", result |-> Pending,
                   log |-> <<>>, body |-> Unread, wrote |-> FALSE, invalidated |-> FALSE])
           /\ inFlightRequests' = RegisterInFlight(inFlightRequests, cacheKey, c)
           /\ calls' = MapSet(calls, c, Asked(options, Issued(CallRecord(cacheKey, cacheTtlMs, "lead", c, Pending))))
           /\ failedKeys' = failedKeys \ {cacheKey}
           /\ UNCHANGED responseCache
    /\ UNCHANGED <<now, apiKeyConfigured, served>>

(***************************************************************************)
(* fetchWithRetry: one attempt settles.                                    *)
(***************************************************************************)
\* faulty variant of ShouldRetryStatus: one retry too many
ShouldRetryStatusExtra(attempt, maxRetries, status) == attempt <= maxRetries + 1 /\ status >= 500

\* attempt <= maxRetries && response.status >= 500
ShouldRetryStatus(attempt, maxRetries, status) == attempt <= maxRetries /\ status >= 500

\* faulty variant of ShouldRetryError: an aborted attempt is not retried
ShouldRetryErrorNoAbort(attempt, maxRetries, error) ==
    attempt <= maxRetries /\ (error.name = "FetchError" \/ error.network \/ error.kind = "error")

\* faulty variant of ShouldRetryError: the attempt count is not looked at
ShouldRetryErrorAlways(attempt, maxRetries, error) ==
    error.name = "AbortError" \/ error.name = "FetchError" \/ error.network \/ error.kind = "error"

\* faulty variant of ShouldRetryError: whatever was caught is retried
ShouldRetryErrorAny(attempt, maxRetries, error) == attempt <= maxRetries

\* attempt <= maxRetries && (isAbort || isNetwork || error instanceof BusClientError)
ShouldRetryError(attempt, maxRetries, error) ==
    LET isAbort == error.name = "AbortError"
        isNetwork == error.name = "FetchError" \/ error.network
    IN attempt <= maxRetries /\ (isAbort \/ isNetwork \/ error.kind = "error")

\* faulty variant of Rethrown: every error is wrapped as a failed request
RethrownWrapped(error) ==
    BusClientError("CTA_BUS_REQUEST_FAILED", <<"Failed to reach the CTA Bus Tracker service.">>,
                   {}, Undefined, Undefined, error.name)

\* faulty variant of Rethrown: the caught value is rethrown as it is
RethrownRaw(error) == error

\* what the catch block rethrows when it does not retry
Rethrown(error) ==
    IF error.kind = "error" THEN error
    ELSE BusClientError("CTA_BUS_REQUEST_FAILED", <<"Failed to reach the CTA Bus Tracker service.">>,
                        {}, Undefined, Undefined, error.name)

\* the error thrown inside the try block for a response that is not ok and not retried
HttpError(status) ==
    BusClientError("CTA_BUS_HTTP_ERROR", <<"CTA bus tracker returned ", ToString(status), ".">>,
                   {status}, Undefined, Undefined, Undefined)

\* faulty variant of LoopStep: an ok response is not returned while retries remain
LoopStepEager(attempt, maxRetries, outcome) ==
    IF attempt <= maxRetries THEN [next |-> "retry"]
    ELSE IF outcome.kind = "response" /\ ResponseOk(outcome) THEN [next |-> "ok"]
    ELSE [next |-> "throw",
          error |-> Rethrown(IF outcome.kind = "response" THEN HttpError(outcome.status) ELSE outcome)]

\* One pass of the loop body after the attempt settled with outcome:
\* "ok" (return response), "retry" (next iteration) or the error thrown.
LoopStep(attempt, maxRetries, outcome) ==
    IF outcome.kind = "response" /\ ResponseOk(outcome) THEN [next |-> "ok"]
    ELSE IF outcome.kind = "response" /\ ShouldRetryStatus(attempt, maxRetries, outcome.status)
         THEN [next |-> "retry"]
    ELSE LET caught == IF outcome.kind = "response" THEN HttpError(outcome.status) ELSE outcome
         IN IF ShouldRetryError(attempt, maxRetries, caught)
            THEN [next |-> "retry"]
            ELSE [next |-> "throw", error |-> Rethrown(caught)]

fetchWithRetry(f, outcome) ==
    /\ f \in DOMAIN fetches
    /\ fetches[f].phase = "fetching"
    /\ LET step == LoopStep(fetches[f].attempt, fetches[f].maxRetries, outcome)
           logged == Append(fetches[f].log, outcome)
       IN fetches' = [fetches EXCEPT ![f] =
              IF step.next = "ok" THEN [@ EXCEPT !.phase = "parsing", !.log = logged]
              ELSE IF step.next = "retry" THEN [@ EXCEPT !.attempt = @ + 1, !.log = logged]
              ELSE [@ EXCEPT !.phase = "settled", !.result = step.error, !.log = logged]]
    /\ UNCHANGED <<now, apiKeyConfigured, responseCache, inFlightRequests, calls, served, failedKeys>>

(***************************************************************************)
(* The rest of the async closure: response.json() settles, the envelope is *)
(* checked and classified, the result is built and cached.                 *)
(***************************************************************************)
\* faulty variant of ExpiresAt: the longest lifetime any caller asks for
ExpiresAtLongest(t, cacheTtlMs) == t + MaxTtl + 1

\* Date.now() + cacheTtlMs, the expiry stored with a cache entry
ExpiresAt(t, cacheTtlMs) == t + cacheTtlMs

\* cacheTtlMs > 0 ? Date.now() + cacheTtlMs : undefined  (undefined is -1)
CacheExpiresAt(t, cacheTtlMs) == IF cacheTtlMs > 0 THEN t + cacheTtlMs ELSE -1

\* the payload's error key after classification: deleted for a soft error
StrippedError(error, reason) == IF reason # Undefined THEN "absent" ELSE error

\* payload.error[0]?.code ?? "CTA_BUS_API_ERROR"
FirstCode(errors) == IF errors[1].code = Undefined THEN "CTA_BUS_API_ERROR" ELSE errors[1].code

\* payload.error[0]?.msg ?? "CTA bus tracker returned an error."
FirstMsg(errors) == IF errors[1].msg = NoMsg THEN <<"CTA bus tracker returned an error.">> ELSE errors[1].msg

\* the errors the closure throws after response.json()
InvalidResponseError ==
    BusClientError("CTA_BUS_INVALID_RESPONSE", <<"CTA bus tracker returned invalid JSON.">>,
                   {}, Undefined, Undefined, "SyntaxError")
UnexpectedShapeError ==
    BusClientError("CTA_BUS_UNEXPECTED_SHAPE", <<"Unexpected CTA bus tracker response shape.">>,
                   {}, Undefined, Undefined, Undefined)

\* the error thrown for an error list without a soft match; rawErrors names
\* the list
HardError(list, sourceTimestamp) ==
    BusClientError(FirstCode(ErrorLists[list]), FirstMsg(ErrorLists[list]), {}, list, sourceTimestamp,
                   Undefined)

\* The closure from the body to its return value or thrown error; t1 and t2
\* are the two readings of Date.now() (meta.cacheExpiresAt, entry.expiresAt).
Settle(f, body, t1) ==
    LET cacheTtlMs == fetches[f].cacheTtlMs
        sourceTimestamp == parseTimestampToIso(body.tmst)
        errors == IF body.error = "absent" THEN <<>> ELSE ErrorLists[body.error]
        reason == IF Len(errors) > 0 THEN classifySoftError(errors) ELSE Undefined
    IN IF ~body.json THEN InvalidResponseError
       ELSE IF ~body.envelope THEN UnexpectedShapeError
       ELSE IF Len(errors) > 0 /\ reason = Undefined THEN HardError(body.error, sourceTimestamp)
       ELSE
           ClientResult([src |-> f, error |-> StrippedError(body.error, reason)],
                        [cacheKey |-> fetches[f].key,
                         cacheTtlMs |-> cacheTtlMs,
                         cacheExpiresAt |-> CacheExpiresAt(t1, cacheTtlMs),
                         servedFromCache |-> FALSE,
                         sourceTimestamp |-> sourceTimestamp,
                         reason |-> reason])

\* faulty variant of WritesCache: whatever the closure ends with is stored
WritesCacheAnything(cacheTtlMs, result) == cacheTtlMs > 0

\* faulty variant of WritesCache: the write is not guarded by cacheTtlMs
WritesCacheAlways(cacheTtlMs, result) == result.kind = "success"

\* whether the closure reaches responseCache.set
WritesCache(cacheTtlMs, result) == result.kind = "success" /\ UsesCache(cacheTtlMs)

\* faulty variant of readBody: a failure after the ok response goes back to
\* the retry loop while retries remain
readBodyRetrying(f, body, d) ==
    /\ f \in DOMAIN fetches
    /\ fetches[f].phase = "parsing"
    /\ now + d <= MaxTime
    /\ LET result == Settle(f, body, now)
           key == fetches[f].key
           write == WritesCache(fetches[f].cacheTtlMs, result)
           again == result.kind = "error" /\ fetches[f].attempt <= fetches[f].maxRetries
       IN /\ fetches' = [fetches EXCEPT ![f] =
                 IF again THEN [@ EXCEPT !.phase = "fetching", !.attempt = @ + 1]
                 ELSE [@ EXCEPT !.phase = "settled", !.result = result, !.body = body, !.wrote = write]]
          /\ responseCache' =
                 IF write
                 THEN MapSet(responseCache, key,
                             [value |-> result, expiresAt |-> ExpiresAt(now + d, fetches[f].cacheTtlMs)])
                 ELSE responseCache
          /\ served' =
                 IF write /\ result.kind = "success"
                 THEN [served EXCEPT ![key] = @ \cup
                          {[payload |-> result.payload, cacheExpiresAt |-> result.meta.cacheExpiresAt]}]
                 ELSE served
    /\ now' = now + d
    /\ UNCHANGED <<apiKeyConfigured, inFlightRequests, calls, failedKeys>>

readBody(f, body, d) ==
    /\ f \in DOMAIN fetches
    /\ fetches[f].phase = "parsing"
    /\ now + d <= MaxTime
    /\ LET result == Settle(f, body, now)
           key == fetches[f].key
           write == WritesCache(fetches[f].cacheTtlMs, result)
       IN /\ fetches' = [fetches EXCEPT ![f] =
                 [@ EXCEPT !.phase = "settled", !.result = result, !.body = body, !.wrote = write]]
          /\ responseCache' =
                 IF write
                 THEN MapSet(responseCache, key,
                             [value |-> result, expiresAt |-> ExpiresAt(now + d, fetches[f].cacheTtlMs)])
                 ELSE responseCache
          /\ served' =
                 IF write /\ result.kind = "success"
                 THEN [served EXCEPT ![key] = @ \cup
                          {[payload |-> result.payload, cacheExpiresAt |-> result.meta.cacheExpiresAt]}]
                 ELSE served
    /\ now' = now + d
    /\ UNCHANGED <<apiKeyConfigured, inFlightRequests, calls, failedKeys>>

(***************************************************************************)
(* .finally(() => inFlightRequests.delete(cacheKey)): the registry entry   *)
(* goes and the shared promise settles.                                    *)
(***************************************************************************)
\* faulty variant of ReleaseInFlight: the entry is left in the registry
ReleaseNothing(registry, cacheKey) == registry

\* faulty variant of ReleaseInFlight: the whole registry is emptied
ReleaseInFlightAll(registry, cacheKey) == << >>

\* inFlightRequests.delete(cacheKey)
ReleaseInFlight(registry, cacheKey) == MapDelete(registry, {cacheKey})

finallyRelease(f) ==
    /\ f \in DOMAIN fetches
    /\ fetches[f].phase = "settled"
    /\ inFlightRequests' = ReleaseInFlight(inFlightRequests, fetches[f].key)
    /\ fetches' = [fetches EXCEPT ![f].phase = "done"]
    /\ failedKeys' = IF fetches[f].result.kind = "error"
                     THEN failedKeys \cup {fetches[f].key}
                     ELSE failedKeys
    /\ UNCHANGED <<now, apiKeyConfigured, responseCache, calls, served>>

\* faulty variant of SharedPromiseSettled: callers hold the closure's own
\* promise, not the one .finally returned
ClosurePromiseSettled(f) == fetches[f].phase \in {"settled", "done"}

\* requestPromise, which leader and joiners receive, is the promise .finally
\* returned: it settles once the callback has run
SharedPromiseSettled(f) == fetches[f].phase = "done"

\* The outcome a call has: its own (cache hit, validation error) or, once
\* the shared promise has settled, the result of the fetch it waits on.
Outcome(c) ==
    IF calls[c].of = 0 THEN calls[c].result
    ELSE IF SharedPromiseSettled(calls[c].of) THEN fetches[calls[c].of].result
    ELSE Pending

(***************************************************************************)
(* invalidateBusCache(predicate): matching is the set of keys the          *)
(* predicate accepts (every key when the predicate is omitted).            *)
(***************************************************************************)
invalidateBusCache(matching) ==
    /\ responseCache' = MapDelete(responseCache, matching)
    /\ served' = [k \in CacheKeys |-> IF k \in matching THEN {} ELSE served[k]]
    \* history: a fetch that has not yet reached its cache write remembers that
    \* the entry of its key was removed meanwhile (the code keeps no such mark)
    /\ fetches' = [f \in DOMAIN fetches |->
                      IF /\ fetches[f].key \in matching \cap DOMAIN responseCache
                         /\ fetches[f].phase \in {"fetching", "parsing"}
                      THEN [fetches[f] EXCEPT !.invalidated = TRUE]
                      ELSE fetches[f]]
    /\ UNCHANGED <<now, apiKeyConfigured, inFlightRequests, calls, failedKeys>>

\* the clock advances
tick ==
    /\ now < MaxTime
    /\ now' = now + 1
    /\ UNCHANGED <<apiKeyConfigured, responseCache, inFlightRequests, fetches, calls, served, failedKeys>>

(***************************************************************************)
(* errorMapping.ts and the route handlers: from what callBusApi returns or *)
(* throws to the envelope {data, error, meta} and the HTTP status.  A code *)
(* is Named (a literal of the source) or Spelled (characters derived from  *)
(* a message); no message of the model spells a named code.  An optional   *)
(* field of meta is a set, empty when the field is undefined.              *)
(***************************************************************************)
Named(text) == [named |-> text]
Spelled(chars) == [spelled |-> chars]

\* a ?? b on optional values
Coalesce(a, b) == IF a # {} THEN a ELSE b

\* String.prototype.toUpperCase on one character
Upper(c) ==
    IF \E u \in DOMAIN ToLower : ToLower[u] = c
    THEN CHOOSE u \in DOMAIN ToLower : ToLower[u] = c
    ELSE c

Digits == {"0", "1", "2", "3", "4", "5", "6", "7", "8", "9"}

\* the class [A-Z0-9]
IsCodeChar(c) == c \in DOMAIN ToLower \cup Digits

CODE_MAX_LENGTH == 60

\* message.toUpperCase().replace(/[^A-Z0-9]+/g, "_"): each run of other
\* characters becomes one underscore
Underscored(message) ==
    LET RECURSIVE walk(_)
        walk(n) ==
            IF n = 0 THEN <<>>
            ELSE LET c == Upper(message[n])
                 IN IF IsCodeChar(c) THEN Append(walk(n - 1), c)
                    ELSE IF n > 1 /\ ~IsCodeChar(Upper(message[n - 1])) THEN walk(n - 1)
                    ELSE Append(walk(n - 1), "_")
    IN walk(Len(message))

\* .replace(/^_+|_+$/g, "").slice(0, 60): after Underscored at most one
\* underscore leads and at most one trails
TrimmedAndSliced(chars) ==
    LET head == IF Len(chars) > 0 /\ chars[1] = "_" THEN 2 ELSE 1
        last == IF Len(chars) > 0 /\ chars[Len(chars)] = "_" THEN Len(chars) - 1 ELSE Len(chars)
        kept == last - head + 1
    IN SubSeq(chars, head, IF kept < CODE_MAX_LENGTH THEN last ELSE head + CODE_MAX_LENGTH - 1)

\* deriveCodeFromMessage: ... || "CTA_BUS_ERROR"
deriveCodeFromMessage(message) ==
    LET chars == TrimmedAndSliced(Underscored(message))
    IN IF chars = <<>> THEN Named("CTA_BUS_ERROR") ELSE Spelled(chars)

Mapping(tests, code, reason, status) ==
    [tests |-> tests, code |-> code, reason |-> reason, status |-> status]

MapNoService ==
    Mapping({<<"n","o"," ","s","e","r","v","i","c","e"," ","s","c","h","e","d","u","l","e","d">>},
            "CTA_BUS_NO_SERVICE", "No service scheduled at this time.", 200)
MapNoData ==
    Mapping({<<"n","o"," ","d","a","t","a"," ","f","o","u","n","d">>},
            "CTA_BUS_NO_DATA", "CTA reported no results for the provided parameters.", 200)
MapNoArrivals ==
    Mapping({<<"n","o"," ","a","r","r","i","v","a","l"," ","t","i","m","e","s">>},
            "CTA_BUS_NO_ARRIVALS", "No upcoming arrivals were returned.", 200)
MapNoPredictions ==
    Mapping({<<"n","o"," ","p","r","e","d","i","c","t","i","o","n","s">>},
            "CTA_BUS_NO_PREDICTIONS", "No live predictions are available right now.", 200)
MapInvalidParameter ==
    Mapping({<<"i","n","v","a","l","i","d"," ","p","a","r","a","m">>},
            "CTA_BUS_INVALID_PARAMETER", "CTA rejected one or more parameters.", 400)
MapRateLimit ==
    Mapping({<<"l","i","m","i","t"," ","e","x","c","e","e","d","e","d">>,
             <<"d","a","i","l","y"," ","r","e","q","u","e","s","t"," ","l","i","m","i","t">>},
            "CTA_BUS_RATE_LIMIT", "CTA rate limit exceeded.", 429)
MapAuthError ==
    Mapping({<<"a","p","i"," ","k","e","y">>},
            "CTA_BUS_AUTH_ERROR", "CTA bus tracker API key rejected.", 401)

\* faulty variant of CTA_ERROR_MAPPINGS: the API-key mapping is tried first
CTA_ERROR_MAPPINGS_KeyFirst ==
    <<MapAuthError, MapNoService, MapNoData, MapNoArrivals, MapNoPredictions,
      MapInvalidParameter, MapRateLimit>>

CTA_ERROR_MAPPINGS ==
    <<MapNoService, MapNoData, MapNoArrivals, MapNoPredictions,
      MapInvalidParameter, MapRateLimit, MapAuthError>>

\* mapping.test.test(raw.msg): an alternation matches when one branch does
MatchesMapping(mapping, msg) == \E pattern \in mapping.tests : RegexTestI(pattern, msg)

\* for (const mapping of CTA_ERROR_MAPPINGS) if (mapping.test.test(raw.msg)) return ...:
\* the index of the first mapping from i on that matches, 0 when none does
FirstMapping(msg, i) ==
    LET RECURSIVE scan(_)
        scan(n) ==
            IF n > Len(CTA_ERROR_MAPPINGS) THEN 0
            ELSE IF MatchesMapping(CTA_ERROR_MAPPINGS[n], msg) THEN n
            ELSE scan(n + 1)
    IN scan(i)

NoDetail == [code |-> {}, message |-> {}, reason |-> {}, status |-> {}]

\* faulty variant of deriveFromRawErrors: only the first error is looked at
deriveFromFirstError(errors) ==
    LET first == errors[1]
        m == IF first.msg = NoMsg THEN 0 ELSE FirstMapping(first.msg, 1)
    IN IF m > 0
       THEN [code |-> {Named(CTA_ERROR_MAPPINGS[m].code)}, message |-> {first.msg},
             reason |-> {CTA_ERROR_MAPPINGS[m].reason}, status |-> {CTA_ERROR_MAPPINGS[m].status}]
       ELSE IF first.msg # NoMsg
       THEN [NoDetail EXCEPT
                !.code = {IF first.code # Undefined THEN Named(first.code)
                          ELSE deriveCodeFromMessage(first.msg)},
                !.message = {first.msg}]
       ELSE NoDetail

\* deriveFromRawErrors, for a list that is not empty
deriveFromRawErrors(errors) ==
    LET RECURSIVE walk(_)
        walk(n) ==
            IF n > Len(errors) THEN
                LET first == errors[1]
                IN IF first.msg # NoMsg
                   THEN [NoDetail EXCEPT
                            !.code = {IF first.code # Undefined THEN Named(first.code)
                                      ELSE deriveCodeFromMessage(first.msg)},
                            !.message = {first.msg}]
                   ELSE NoDetail
            ELSE IF errors[n].msg = NoMsg THEN walk(n + 1)
            ELSE LET m == FirstMapping(errors[n].msg, 1)
                 IN IF m = 0 THEN walk(n + 1)
                    ELSE [code |-> {Named(CTA_ERROR_MAPPINGS[m].code)},
                          message |-> {errors[n].msg},
                          reason |-> {CTA_ERROR_MAPPINGS[m].reason},
                          status |-> {CTA_ERROR_MAPPINGS[m].status}]
    IN walk(1)

\* an Error that is not a BusClientError, and a thrown value that is no Error
PlainError(name, message) == [kind |-> "exception", name |-> name, network |-> FALSE, message |-> message]
NonError == [kind |-> "value"]

MsgNotAFunction ==
    <<"p","a","y","l","o","a","d",".","v","e","h","i","c","l","e",".","m","a","p"," ",
      "i","s"," ","n","o","t"," ","a"," ","f","u","n","c","t","i","o","n">>

\* the object a route hands to mapBusApiError: the routes set endpoint,
\* params, cacheKey and cacheTtlMs and leave the other fields undefined
ErrorContext(params, cacheKey, cacheTtlMs, status) ==
    [endpoint |-> Endpoint, params |-> params, cacheKey |-> cacheKey, cacheTtlMs |-> cacheTtlMs,
     servedFromCache |-> {}, sourceUpdatedAt |-> {}, reason |-> {}, status |-> status]

MAPPED_DEFAULT_STATUS == 502

Null == [null |-> TRUE]

\* sanitizeParams: the entries whose value is neither undefined nor null
sanitizeParams(params) ==
    SelectSeq(params, LAMBDA e : e.value # VUndefined /\ e.value # VNull)

\* faulty variant of ErrorBody: the envelope of a failure carries data
ErrorBodyWithData(detail, meta) == [data |-> [items |-> <<>>], error |-> detail, meta |-> meta]

\* return { data: null, error: detail, meta }
ErrorBody(detail, meta) == [data |-> Null, error |-> detail, meta |-> meta]

\* mapBusApiError at time t
mapBusApiError(error, context, t) ==
    LET ttl == context.cacheTtlMs
        detail0 == [code |-> Named("CTA_BUS_UNKNOWN_ERROR"),
                    message |-> <<"Unexpected error contacting CTA Bus Tracker.">>,
                    details |-> Undefined]
        meta0 == [sourceUpdatedAt |-> context.sourceUpdatedAt,
                  queriedAt |-> t,
                  cacheTtlMs |-> ttl,
                  cacheExpiresAt |-> IF ttl # {} /\ (\A n \in ttl : n > 0)
                                     THEN {t + n : n \in ttl} ELSE {},
                  cacheKey |-> context.cacheKey,
                  ctaEndpoint |-> context.endpoint,
                  paramsUsed |-> sanitizeParams(context.params),
                  reason |-> context.reason,
                  status |-> Coalesce(context.status, {MAPPED_DEFAULT_STATUS}),
                  servedFromCache |-> IF context.servedFromCache = {} THEN FALSE
                                      ELSE CHOOSE b \in context.servedFromCache : TRUE]
    IN IF error.kind = "error" THEN
           LET hasRaw == error.rawErrors # Undefined /\ Len(ErrorLists[error.rawErrors]) > 0
               rawDetail == IF hasRaw THEN deriveFromRawErrors(ErrorLists[error.rawErrors]) ELSE NoDetail
               detail == [code |-> IF rawDetail.code # {} THEN CHOOSE c \in rawDetail.code : TRUE
                                   ELSE Named(error.code),
                          message |-> IF rawDetail.message # {} THEN CHOOSE m \in rawDetail.message : TRUE
                                      ELSE error.message,
                          details |-> Undefined]
               meta1 == [meta0 EXCEPT !.reason = Coalesce(rawDetail.reason, @),
                                      !.status = Coalesce(rawDetail.status, @)]
               meta == [meta1 EXCEPT
                           !.sourceUpdatedAt =
                               Coalesce(@, IF error.sourceTimestamp = Undefined THEN {}
                                           ELSE {error.sourceTimestamp}),
                           \* error.reason and error.servedFromCache are set by no constructor call
                           !.reason = Coalesce(@, {}),
                           !.status = Coalesce(@, Coalesce({error.status}, @))]
           IN ErrorBody(detail, meta)
       ELSE IF error.kind = "exception" THEN
           ErrorBody([code |-> deriveCodeFromMessage(error.message), message |-> error.message,
                      details |-> Undefined], meta0)
       ELSE ErrorBody(detail0, meta0)

\* buildBusApiMeta(result, overrides) at time t, for the overrides { status }
buildBusApiMeta(result, status, t) ==
    [sourceUpdatedAt |-> IF result.meta.sourceTimestamp = Undefined THEN {}
                         ELSE {result.meta.sourceTimestamp},
     queriedAt |-> t,
     cacheTtlMs |-> {result.meta.cacheTtlMs},
     cacheExpiresAt |-> IF result.meta.cacheExpiresAt = -1 THEN {} ELSE {result.meta.cacheExpiresAt},
     cacheKey |-> result.meta.cacheKey,
     ctaEndpoint |-> Endpoint,
     paramsUsed |-> <<>>,
     reason |-> IF result.meta.reason = Undefined THEN {} ELSE {result.meta.reason},
     status |-> status,
     servedFromCache |-> result.meta.servedFromCache]

\* createBaseMeta(options) at time t, for the options of a route's refusal
createBaseMeta(cacheTtlMs, status, t) ==
    [sourceUpdatedAt |-> {},
     queriedAt |-> t,
     cacheTtlMs |-> {cacheTtlMs},
     cacheExpiresAt |-> IF cacheTtlMs # 0 THEN {t + cacheTtlMs} ELSE {},
     cacheKey |-> Undefined,
     ctaEndpoint |-> Endpoint,
     paramsUsed |-> <<>>,
     reason |-> {},
     status |-> {status},
     servedFromCache |-> FALSE]

\* normalizeVehicles: [] for a payload without vehicles, else one item per vehicle
normalizeVehicles(payload) ==
    IF "vehicle" \notin DOMAIN payload THEN [items |-> <<>>]
    ELSE [items |-> [i \in DOMAIN payload.vehicle |-> [vehicleId |-> payload.vehicle[i]]]]

\* the lists for which callBusApi throws: no message matches a soft pattern
HardLists ==
    {list \in DOMAIN ErrorLists :
        Len(ErrorLists[list]) > 0 /\ classifySoftError(ErrorLists[list]) = Undefined}

\* what the try block of a route can throw
ThrownValues ==
    {ConfigMissingError, InvalidResponseError, UnexpectedShapeError, NonError}
    \cup {BadRequestError(key) : key \in {"rt", "stpid"}}
    \cup {HttpError(status) : status \in {400, 503}}
    \cup {Rethrown(e) : e \in {AbortError, NetworkTypeError}}
    \cup {HardError(list, ts) : list \in HardLists, ts \in {Undefined, parseTimestampToIso("20240101 00:00:00")}}
    \cup {PlainError("TypeError", m) : m \in {MsgNotAFunction, MsgSymbols, NoMsg}}

\* what callBusApi can return to a route at time t
RouteResults(t) ==
    {ClientResult(payload,
                  [cacheKey |-> "k1", cacheTtlMs |-> ttl, cacheExpiresAt |-> CacheExpiresAt(t, ttl),
                   servedFromCache |-> cached, sourceTimestamp |-> ts, reason |-> reason]) :
        payload \in {[src |-> 1, error |-> "absent"],
                     [src |-> 1, error |-> "absent", vehicle |-> <<"v1", "v2">>]},
        ttl \in {0, MaxTtl}, cached \in BOOLEAN, ts \in {Undefined, parseTimestampToIso("20240101 00:00:00")},
        reason \in {Undefined, "No active vehicles found."}}

\* the contexts the routes build, and one that sets a status
Contexts ==
    {ErrorContext(StopParams, "k1", {ttl}, status) : ttl \in {0, MaxTtl}, status \in {{}, {504}}}

\* The handler GET answers its request once: envelope is NoResponse until it does.
\* a route's catch block: NextResponse.json(mapped, { status: mapped.meta.status ?? 502 })
routeCatch(error, context) ==
    /\ envelope = NoResponse
    /\ LET mapped == mapBusApiError(error, context, now)
       IN envelope' = [sent |-> TRUE, via |-> "catch", thrown |-> error, result |-> [kind |-> "none"],
                       context |-> context, body |-> mapped,
                       status |-> Coalesce(mapped.meta.status, {MAPPED_DEFAULT_STATUS})]
    /\ UNCHANGED <<now, apiKeyConfigured, responseCache, inFlightRequests, fetches, calls, served,
                   failedKeys, request>>

\* the end of a route's try block: NextResponse.json(success)
routeReturn(result) ==
    /\ envelope = NoResponse
    /\ envelope' = [sent |-> TRUE, via |-> "return", thrown |-> NonError, result |-> result,
                    context |-> ErrorContext(StopParams, "k1", {}, {}),
                    body |-> [data |-> normalizeVehicles(result.payload), error |-> Null,
                              meta |-> buildBusApiMeta(result, {200}, now)],
                    status |-> {200}]
    /\ UNCHANGED <<now, apiKeyConfigured, responseCache, inFlightRequests, fetches, calls, served,
                   failedKeys, request>>

\* a route's refusal of a request without its query parameter
routeRefuse(cacheTtlMs) ==
    /\ envelope = NoResponse
    /\ envelope' = [sent |-> TRUE, via |-> "refuse", thrown |-> NonError, result |-> [kind |-> "none"],
                    context |-> ErrorContext(NoParams, Undefined, {cacheTtlMs}, {400}),
                    body |-> ErrorBody([code |-> Named("CTA_BUS_BAD_REQUEST"),
                                        message |-> <<"Query parameter \"rt\" is required.">>,
                                        details |-> Undefined],
                                       createBaseMeta(cacheTtlMs, 400, now)),
                    status |-> {400}]
    /\ UNCHANGED <<now, apiKeyConfigured, responseCache, inFlightRequests, fetches, calls, served,
                   failedKeys, request>>

\* A caller adds a parameter to the descriptor it is building: the object
\* gets a new last entry.
setParam(key, value) ==
    /\ key \notin EntryKeys(request.params)
    /\ request' = [request EXCEPT !.params = Append(@, Entry(key, value))]
    /\ UNCHANGED <<now, apiKeyConfigured, responseCache, inFlightRequests, fetches, calls, served, failedKeys,
                   envelope>>

\* A caller sets or clears options.cacheKey.
setCacheKey(cacheKey) ==
    /\ request.cacheKey # cacheKey
    /\ request' = [request EXCEPT !.cacheKey = cacheKey]
    /\ UNCHANGED <<now, apiKeyConfigured, responseCache, inFlightRequests, fetches, calls, served, failedKeys,
                   envelope>>

\* A caller starts a new descriptor.
newRequest ==
    /\ request.params # <<>>
    /\ request' = [request EXCEPT !.params = <<>>]
    /\ UNCHANGED <<now, apiKeyConfigured, responseCache, inFlightRequests, fetches, calls, served, failedKeys,
                   envelope>>

\* The steps of the client over the inputs of scenario P: the options callers
\* pass, the outcomes and bodies the upstream produces, the clock drift between
\* the two readings of Date.now() in the closure, the invalidation predicates.
NextOver(P) ==
    \/ \E c \in 1..P.calls, options \in P.options : callBusApi(c, options) /\ UNCHANGED <<request, envelope>>
    \/ \E f \in 1..P.calls, outcome \in P.outcomes : fetchWithRetry(f, outcome) /\ UNCHANGED <<request, envelope>>
    \/ \E f \in 1..P.calls, body \in P.bodies, d \in P.drift : readBody(f, body, d) /\ UNCHANGED <<request, envelope>>
    \/ \E f \in 1..P.calls : finallyRelease(f) /\ UNCHANGED <<request, envelope>>
    \/ \E matching \in P.matchings : invalidateBusCache(matching) /\ UNCHANGED <<request, envelope>>
    \/ tick /\ UNCHANGED <<request, envelope>>

\* Scenario of Spec: up to MaxCalls callers of one key, with and without
\* caching; an attempt succeeds or fails for good.
Main ==
    [calls |-> MaxCalls,
     options |-> [cacheKey : {"k1"}, cacheTtlMs : {{}} \cup {{n} : n \in 0..MaxTtl},
                  maxRetries : {{0}}, params : {NoParams, StopParams}, requiredParams : {<<"stpid">>}],
     outcomes |-> {HttpResponse(200), OtherError},
     bodies |-> {DataBody},
     drift |-> {0, 1},
     matchings |-> {CacheKeys}]

\* Scenario of SpecKeys: one caller fewer, two keys, one retry, invalidation
\* by any predicate.
Keyed ==
    [calls |-> MaxCalls - 1,
     options |-> [cacheKey : CacheKeys, cacheTtlMs : {{0}, {MaxTtl}},
                  maxRetries : {{1}}, params : {StopParams}, requiredParams : {<<"stpid">>}],
     outcomes |-> {HttpResponse(200), HttpResponse(503)},
     bodies |-> {DataBody},
     drift |-> {0},
     matchings |-> SUBSET CacheKeys]

\* Scenario of SpecRetry: one fetch, every outcome of an attempt, every retry
\* budget.
Retrying ==
    [calls |-> 1,
     options |-> [cacheKey : {"k1"}, cacheTtlMs : {{0}},
                  maxRetries : {{}} \cup {{n} : n \in 0..MaxRetriesOpt}, params : {StopParams}, requiredParams : {<<"stpid">>}],
     outcomes |-> AttemptOutcomes,
     bodies |-> {DataBody},
     drift |-> {0},
     matchings |-> {CacheKeys}]

\* Scenario of SpecBodies: every body of an ok response.
Classifying ==
    [calls |-> MaxCalls - 2,
     options |-> [cacheKey : {"k1"}, cacheTtlMs : {{n} : n \in 0..MaxTtl},
                  maxRetries : {{0}}, params : {StopParams}, requiredParams : {<<"stpid">>}],
     outcomes |-> {HttpResponse(200), HttpResponse(400)},
     bodies |-> Bodies,
     drift |-> {0},
     matchings |-> {CacheKeys}]

\* Scenario of SpecLive: up to MaxCalls callers of one key that all pass
\* validation, with and without caching; an attempt succeeds or fails for good.
Releasing ==
    [calls |-> MaxCalls,
     options |-> [cacheKey : {"k1"}, cacheTtlMs : {{0}, {MaxTtl}},
                  maxRetries : {{0}}, params : {StopParams}, requiredParams : {<<"stpid">>}],
     outcomes |-> {HttpResponse(200), OtherError},
     bodies |-> {DataBody},
     drift |-> {0},
     matchings |-> {CacheKeys}]

\* Scenario of SpecErrors: two callers of one key, with and without caching;
\* a fetch can end in each kind of error (HTTP 5xx or 4xx after a retry,
\* invalid JSON, unexpected shape, hard upstream error) or succeed.
Erring ==
    [calls |-> MaxCalls - 1,
     options |-> [cacheKey : {"k1"}, cacheTtlMs : {{0}, {MaxTtl}},
                  maxRetries : {{1}}, params : {StopParams}, requiredParams : {<<"stpid">>}],
     outcomes |-> {HttpResponse(200), HttpResponse(503), HttpResponse(400)},
     bodies |-> {DataBody, Body(FALSE, FALSE, Undefined, "absent"),
                 Body(TRUE, FALSE, Undefined, "absent"), Body(TRUE, TRUE, Undefined, "hardKey")},
     drift |-> {0},
     matchings |-> {CacheKeys}]

\* The steps that build a request descriptor.
NextRequest ==
    \/ \E key \in ParamNames, value \in ParamValues : setParam(key, value)
    \/ \E cacheKey \in {Undefined, "k1"} : setCacheKey(cacheKey)
    \/ newRequest

\* Scenario of SpecInput: callers of one key whose required parameter is
\* absent, undefined, null, empty or given; every attempt succeeds.
Asking ==
    [calls |-> MaxCalls - 1,
     options |-> [cacheKey : {"k1"}, cacheTtlMs : {{0}, {MaxTtl}}, maxRetries : {{0}},
                  params : {NoParams, StopParams}
                           \cup {<<Entry("stpid", v)>> : v \in {VUndefined, VNull, VString("")}},
                  requiredParams : {<<"stpid">>, <<"rt", "stpid">>}],
     outcomes |-> {HttpResponse(200)},
     bodies |-> {DataBody},
     drift |-> {0},
     matchings |-> {CacheKeys}]

\* Scenario of SpecFail: two callers of one key, without caching and with one
\* retry; an attempt can end in every way and an ok response can have a body
\* of each failing kind; a caller can leave out its required parameter.
Failing ==
    [calls |-> 2,
     options |-> [cacheKey : {"k1"}, cacheTtlMs : {{0}}, maxRetries : {{1}},
                  params : {NoParams, StopParams}, requiredParams : {<<"stpid">>}],
     outcomes |-> AttemptOutcomes,
     bodies |-> {DataBody, Body(FALSE, FALSE, Undefined, "absent"),
                 Body(TRUE, FALSE, Undefined, "absent"), Body(TRUE, TRUE, Undefined, "hardKey")},
     drift |-> {0},
     matchings |-> {CacheKeys}]

\* Scenario of SpecDone: two callers of one key, with and without caching,
\* one retry; an attempt is answered (200, 503) or aborted by its timeout, a
\* body is good or not JSON.
Finishing ==
    [calls |-> 2,
     options |-> [cacheKey : {"k1"}, cacheTtlMs : {{0}, {MaxTtl}}, maxRetries : {{1}},
                  params : {NoParams, StopParams}, requiredParams : {<<"stpid">>}],
     outcomes |-> {HttpResponse(200), HttpResponse(503), AbortError},
     bodies |-> {DataBody, Body(FALSE, FALSE, Undefined, "absent")},
     drift |-> {0},
     matchings |-> {CacheKeys}]

\* Scenario of SpecShare: three callers of one key with caching off or one of
\* two lifetimes; every attempt is answered and every body good.
Sharing ==
    [calls |-> 3,
     options |-> [cacheKey : {"k1"}, cacheTtlMs : {{0}, {MaxTtl}, {MaxTtl + 1}}, maxRetries : {{0}},
                  params : {StopParams}, requiredParams : {<<"stpid">>}],
     outcomes |-> {HttpResponse(200)},
     bodies |-> {DataBody},
     drift |-> {0},
     matchings |-> {CacheKeys}]

Next == NextOver(Main)
NextInput == NextOver(Asking)
NextErrors == NextOver(Erring)
NextLive == NextOver(Releasing)
NextKeys == NextOver(Keyed)
NextRetry == NextOver(Retrying)
NextBodies == NextOver(Classifying)

NextRoute ==
    \/ \E error \in ThrownValues, context \in Contexts : routeCatch(error, context)
    \/ \E result \in RouteResults(now) : routeReturn(result)
    \/ \E cacheTtlMs \in {0, MaxTtl} : routeRefuse(cacheTtlMs)
    \/ tick /\ UNCHANGED <<request, envelope>>

Spec == Init /\ [][Next]_vars
SpecKeys == Init /\ [][NextKeys]_vars
SpecRetry == Init /\ [][NextRetry]_vars
SpecBodies == Init /\ [][NextBodies]_vars
SpecErrors == Init /\ [][NextErrors]_vars
SpecRequest == Init /\ [][NextRequest]_vars
SpecInput == Init /\ [][NextInput]_vars
SpecFail == Init /\ [][NextOver(Failing)]_vars

\* The scheduling of the .finally callback: a microtask queued when
\* the closure's promise settles runs before the event loop goes on.
SpecEnvelope == Init /\ [][NextRoute]_vars
\* Every pending attempt is eventually answered or aborted by its timer,
\* response.json() settles, and the .finally callback runs.
SpecDone ==
    /\ Init
    /\ [][NextOver(Finishing)]_vars
    /\ \A f \in 1..Finishing.calls :
          /\ WF_vars((\E outcome \in Finishing.outcomes : fetchWithRetry(f, outcome))
                     /\ UNCHANGED <<request, envelope>>)
          /\ WF_vars((\E body \in Finishing.bodies : readBody(f, body, 0))
                     /\ UNCHANGED <<request, envelope>>)
          /\ WF_vars(finallyRelease(f) /\ UNCHANGED <<request, envelope>>)

SpecShare == Init /\ [][NextOver(Sharing)]_vars
SpecLive == Init /\ [][NextLive]_vars /\ \A f \in 1..MaxCalls : WF_vars(finallyRelease(f) /\ UNCHANGED <<request, envelope>>)

(***************************************************************************)
(* Properties.                                                             *)
(***************************************************************************)
Launched == DOMAIN fetches
Settled(f) == fetches[f].phase \in {"settled", "done"}
Failed(f) == Settled(f) /\ fetches[f].result.kind = "error"
Validated == {c \in DOMAIN calls : calls[c].mode # "rejected"}

\* the fetches for cacheKey whose shared promise has not settled
Open(cacheKey) == {f \in Launched : fetches[f].key = cacheKey /\ fetches[f].phase # "done"}

\* C1: in every reachable state each cache key has at most one fetch that is
\* launched and not yet released, and it is the one the in-flight registry
\* holds for the key: no second fetch is launched while the registry has an
\* entry, whatever the callers' cacheTtl.
C1_SingleFlight ==
    \A k \in CacheKeys :
        /\ Cardinality(Open(k)) <= 1
        /\ \A f \in Open(k) : k \in DOMAIN inFlightRequests /\ inFlightRequests[k] = f

\* C1 witness: a caller with cacheTtl 0 joined the registered fetch of its
\* key while that fetch is on its second attempt.
C1_Witness ==
    \E c \in Validated :
        /\ calls[c].mode = "join"
        /\ calls[c].ttl = 0
        /\ fetches[calls[c].of].phase = "fetching"
        /\ fetches[calls[c].of].attempt = 2

\* C2 as claimed: every request issued for a key while an earlier request for
\* that key is unsettled launches no fetch of its own and ends with the same
\* outcome as the earlier one.
C2_Original ==
    \A c \in Validated : \A p \in calls[c].peers :
        /\ calls[c].mode # "lead"
        /\ (Outcome(c).kind # "pending" /\ Outcome(p).kind # "pending") => Outcome(c) = Outcome(p)

\* C2 amended: every request issued for a key while an earlier request for
\* that key is unsettled, and not served from the cache, joins the earlier
\* request's fetch (one fetch is launched for all of them) and ends with the
\* same outcome, payload and meta or error.
C2_Coalesced ==
    \A c \in Validated : \A p \in calls[c].peers :
        calls[c].mode # "hit" =>
            /\ calls[c].mode = "join"
            /\ calls[c].of = calls[p].of
            /\ (Outcome(c).kind # "pending" /\ Outcome(p).kind # "pending") => Outcome(c) = Outcome(p)

\* C2 witness: three callers of one key, the second and third issued before
\* the first settled, all settled with the first one's successful result.
C2_Witness ==
    \E c \in Validated :
        /\ Cardinality(calls[c].peers) = 2
        /\ calls[c].mode = "join"
        /\ Outcome(c).kind = "success"
        /\ \A p \in calls[c].peers : Outcome(p) = Outcome(c)

\* C3: a request with cacheTtl > 0 issued strictly before the cacheExpiresAt
\* of a successful response for its key, no invalidation of the key in
\* between, is served that response's payload from the cache, marked
\* servedFromCache, and launches no fetch.
C3_CacheHonoured ==
    \A c \in Validated :
        calls[c].expect # {} =>
            /\ calls[c].mode = "hit"
            /\ c \notin Launched
            /\ calls[c].result.kind = "success"
            /\ calls[c].result.meta.servedFromCache
            /\ \A payload \in calls[c].expect : calls[c].result.payload = payload

\* C3 witness: a request issued inside the window of an earlier response was
\* served from the cache.
C3_Witness ==
    \E c \in Validated : calls[c].expect # {} /\ calls[c].mode = "hit" /\ calls[c].ttl > 0

\* C4: a response served from the cache is returned strictly before the
\* entry's expiresAt; a request that finds an expired entry and nothing in
\* flight for its key launches a fetch of its own, and when that fetch fails
\* the request ends with the error.
C4_NoStaleServe ==
    \A c \in Validated :
        /\ calls[c].mode = "hit" => calls[c].hitFresh
        /\ calls[c].stale =>
              /\ calls[c].mode = "lead"
              /\ c \in Launched
              /\ (fetches[c].phase = "done" /\ Failed(c)) => Outcome(c).kind = "error"
              /\ Outcome(c).kind = "success" => ~Outcome(c).meta.servedFromCache

\* C4 witness: a request found an expired entry, fetched, and the fetch
\* failed, while the expired entry is still in the store.
C4_Witness ==
    \E c \in Validated :
        /\ calls[c].stale
        /\ calls[c].ttl > 0
        /\ Outcome(c).kind = "error"
        /\ calls[c].key \in DOMAIN responseCache

\* fetch f has settled and its .finally callback has not run yet
AwaitingRelease(f) == f \in Launched /\ fetches[f].phase = "settled"

\* the .finally callback of fetch f ran and the registry does not hold f
Released(f) ==
    /\ f \in Launched
    /\ fetches[f].phase = "done"
    /\ ~(fetches[f].key \in DOMAIN inFlightRequests /\ inFlightRequests[fetches[f].key] = f)

\* the registry never holds a fetch whose .finally callback ran
NoneLeftBehind ==
    \A f \in Launched :
        fetches[f].phase = "done" =>
            ~(fetches[f].key \in DOMAIN inFlightRequests /\ inFlightRequests[fetches[f].key] = f)

\* C5 as claimed: the registry entry of a fetch that settled, with a success
\* or an error, is eventually removed, and the first request for a key after
\* a failed fetch for it was released launches a new fetch.
C5_Original ==
    /\ \A f \in 1..MaxCalls : AwaitingRelease(f) ~> Released(f)
    /\ [](NoneLeftBehind /\ \A c \in Validated : calls[c].afterFail => calls[c].mode = "lead")

\* C5 amended: the registry entry of a fetch that settled, with a success or
\* an error, is eventually removed, and the first request for a key after a
\* failed fetch for it was released, unless it is served from the cache,
\* finds no registry entry and launches a new fetch.
C5_Unblocked ==
    /\ \A f \in 1..MaxCalls : AwaitingRelease(f) ~> Released(f)
    /\ [](NoneLeftBehind /\
          \A c \in Validated : (calls[c].afterFail /\ calls[c].mode # "hit") => calls[c].mode = "lead")

\* C5 witness: a request issued after a failed and released fetch for its key
\* launched a second fetch, which is in flight.
C5_Witness ==
    \E c \in Validated :
        /\ calls[c].afterFail
        /\ calls[c].mode = "lead"
        /\ \E f \in Launched : f # c /\ fetches[f].key = calls[c].key /\ fetches[f].phase = "done" /\ Failed(f)
        /\ inFlightRequests[calls[c].key] = c

\* the upstream answered HTTP 503 to every attempt of fetch f so far
All503(f) ==
    /\ fetches[f].log # <<>>
    /\ \A i \in 1..Len(fetches[f].log) : fetches[f].log[i] = HttpResponse(503)

\* C6: a fetch whose every attempt is answered 503 keeps retrying while it
\* has made at most maxRetries attempts, and fails when attempt
\* maxRetries + 1 is answered: exactly maxRetries + 1 attempts.
C6_RetryBound ==
    \A f \in Launched :
        All503(f) =>
            \/ /\ fetches[f].phase = "fetching"
               /\ Len(fetches[f].log) <= fetches[f].maxRetries
               /\ fetches[f].attempt = Len(fetches[f].log) + 1
            \/ /\ Failed(f)
               /\ Len(fetches[f].log) = fetches[f].maxRetries + 1
               /\ fetches[f].attempt = fetches[f].maxRetries + 1

\* C6 witness: with the default retry budget, three attempts answered 503 and
\* the fetch failed.
C6_Witness ==
    \E f \in Launched :
        /\ All503(f)
        /\ Failed(f)
        /\ fetches[f].maxRetries = DEFAULT_MAX_RETRIES
        /\ Len(fetches[f].log) = DEFAULT_MAX_RETRIES + 1

\* C7 as claimed: a fetch whose first attempt is answered HTTP 400 makes no
\* further attempt and fails at once, whatever maxRetries.
C7_NoRetryOn4xx ==
    \A f \in Launched :
        (fetches[f].log # <<>> /\ fetches[f].log[1] = HttpResponse(400)) =>
            /\ Len(fetches[f].log) = 1
            /\ fetches[f].attempt = 1
            /\ Failed(f)

ExpectedReason ==
    [ softArrivals |-> "No arrival times available.",
      softUpper |-> "No data found for parameters.",
      softService |-> "No service scheduled at this time.",
      softPredictions |-> "No predictions are currently available.",
      softBuses |-> "No active vehicles found." ]

\* C9: a fetch whose ok response carries an error list of one message that
\* matches a soft pattern, in any letter case, settles with a success: the
\* payload has no error key and meta.reason is the pattern's explanation.
C9_SoftErrorIsSuccess ==
    \A f \in Launched :
        (Settled(f) /\ fetches[f].body.error \in DOMAIN ExpectedReason) =>
            /\ fetches[f].result.kind = "success"
            /\ fetches[f].result.payload.error = "absent"
            /\ fetches[f].result.meta.reason = ExpectedReason[fetches[f].body.error]

\* C9 witness: the caller of a fetch answered "NO DATA FOUND" has a success
\* with the reason set.
C9_Witness ==
    \E f \in Launched :
        /\ fetches[f].body.error = "softUpper"
        /\ Outcome(f).kind = "success"
        /\ Outcome(f).meta.reason = "No data found for parameters."

\* C10 as claimed: a cache write happens only for a fetch with cacheTtl > 0
\* that ended in a success without a soft-error reason.
C10_Original ==
    \A f \in Launched :
        fetches[f].wrote =>
            /\ fetches[f].cacheTtlMs > 0
            /\ fetches[f].result.kind = "success"
            /\ fetches[f].result.meta.reason = Undefined

\* C10 amended: a cache write happens only for a fetch with cacheTtl > 0 that
\* ended in a success, genuine or soft-empty; a fetch that ends in an error, or
\* whose call has cacheTtl = 0, writes nothing, and every entry of the store is
\* the success of such a fetch.
C10_WritesOnlySuccess ==
    /\ \A f \in Launched :
          /\ fetches[f].wrote => (fetches[f].cacheTtlMs > 0 /\ fetches[f].result.kind = "success")
          /\ (Failed(f) \/ fetches[f].cacheTtlMs = 0) => ~fetches[f].wrote
    /\ \A k \in DOMAIN responseCache :
          LET value == responseCache[k].value
          IN /\ value.kind = "success"
             /\ value.payload.src \in Launched
             /\ fetches[value.payload.src].cacheTtlMs > 0
             /\ fetches[value.payload.src].result = value

\* C10 witness: the store holds the soft-empty success of a fetch with
\* cacheTtl > 0.
C10_Witness ==
    \E k \in DOMAIN responseCache :
        /\ responseCache[k].value.meta.reason # Undefined
        /\ responseCache[k].value.meta.cacheTtlMs > 0

\* a fetch record without its history mark
Unmarked(rec) == [rec EXCEPT !.invalidated = FALSE]

\* the step is one of fetch f (its launch, an attempt settling, its body
\* read, its release) and leaves f without a successful result
StepOfUnsuccessful(f) ==
    /\ f \in DOMAIN fetches'
    /\ (f \notin DOMAIN fetches \/ Unmarked(fetches'[f]) # Unmarked(fetches[f]))
    /\ fetches'[f].result.kind # "success"

\* C11: no step of a fetch that has not succeeded, and in particular the step
\* in which a fetch settles with an error of any kind, changes the cache store
\* for any key, and no entry of the store ever holds an error.
C11_ErrorsNeverStored ==
    /\ [][\A f \in 1..MaxCalls : StepOfUnsuccessful(f) => responseCache' = responseCache]_vars
    /\ [](\A k \in DOMAIN responseCache : responseCache[k].value.kind = "success")
    /\ [](\A f \in Launched : Failed(f) => ~fetches[f].wrote)

\* C11 witness: a caching fetch read its response body, settled with an
\* error and was released, and the store still holds the older entry of its
\* key.
C11_Witness ==
    \E f \in Launched :
        /\ Failed(f)
        /\ fetches[f].phase = "done"
        /\ fetches[f].cacheTtlMs > 0
        /\ fetches[f].body # Unread
        /\ fetches[f].key \in DOMAIN responseCache
        /\ responseCache[fetches[f].key].value.payload.src # f

\* C12: a call whose cacheTtl is 0 (given as 0 or left undefined) is never
\* served from the cache: it joins the registered fetch of its key or leads a
\* fetch of its own, its result is not marked servedFromCache, and a fetch it
\* leads writes no cache entry.
C12_ZeroTtlNeverCaches ==
    \A c \in Validated :
        calls[c].ttl = 0 =>
            /\ calls[c].mode \in {"lead", "join"}
            /\ Outcome(c).kind = "success" => ~Outcome(c).meta.servedFromCache
            /\ calls[c].mode = "lead" => (~fetches[c].wrote /\ fetches[c].cacheTtlMs = 0)

\* C12 witness: a call with cacheTtl 0 led a fetch to a success although the
\* store holds an entry of its key, written by an earlier fetch and still
\* unexpired; the entry is unchanged.
C12_Witness ==
    \E c \in Validated :
        /\ calls[c].ttl = 0
        /\ calls[c].mode = "lead"
        /\ Outcome(c).kind = "success"
        /\ calls[c].key \in DOMAIN responseCache
        /\ responseCache[calls[c].key].value.payload.src < c
        /\ responseCache[calls[c].key].expiresAt > now

\* C13: a caller, leader or joiner, that has the result or error of a shared
\* fetch never finds that fetch in the registry: the entry was removed before
\* the promise the caller holds settled.
C13_ReleasedBeforeObserved ==
    \A c \in DOMAIN calls :
        (calls[c].of # 0 /\ Outcome(c).kind # "pending") =>
            ~(calls[c].key \in DOMAIN inFlightRequests
              /\ inFlightRequests[calls[c].key] = calls[c].of)

\* C13 witness: a joiner has the error of the fetch it shared while the
\* registry already holds a newer fetch for the same key.
C13_Witness ==
    \E c \in Validated :
        /\ calls[c].mode = "join"
        /\ Outcome(c).kind = "error"
        /\ calls[c].key \in DOMAIN inFlightRequests
        /\ inFlightRequests[calls[c].key] > c

\* the parameters a descriptor supplies: its entries with a value
Supplied(req) ==
    {Entry(req.params[i].key, req.params[i].value) :
        i \in {j \in 1..Len(req.params) : ~IsEmptyValue(req.params[j].value)}}

\* the descriptors without a supplied cacheKey: every sequence of entries
\* with distinct names over the parameter names and values of the model
Descriptors ==
    {RequestOf(params, Undefined) :
        params \in {q \in UNION {[1..n -> [key : ParamNames, value : ParamValues]] : n \in 0..Cardinality(ParamNames)} :
                       \A i, j \in 1..Len(q) : q[i].key = q[j].key => i = j}}

\* C14: two descriptors without a supplied cacheKey, for the same endpoint,
\* that supply the same parameters derive the same cache key, whatever the
\* insertion order of their entries and whatever entries with an undefined,
\* null or empty value either of them has besides.
C14_KeyIgnoresOrder ==
    request.cacheKey = Undefined =>
        \A other \in Descriptors :
            Supplied(other) = Supplied(request) => DerivedKey(other) = DerivedKey(request)

\* C14 witness: the descriptor {stpid: 7, rt: null, format: "a b"} derives the
\* key of {format: "a b", stpid: 7}.
C14_Witness ==
    /\ request.cacheKey = Undefined
    /\ request.params = <<Entry("stpid", VNumber(7)), Entry("rt", VNull), Entry("format", VString("a b"))>>
    /\ DerivedKey(request) =
           DerivedKey(RequestOf(<<Entry("format", VString("a b")), Entry("stpid", VNumber(7))>>, Undefined))
    /\ DerivedKey(request) =
           <<Endpoint, "?", "format", "=", "a%20b", "&", "rtpidatafeed", "=", "ctabus", "&", "stpid", "=", "7">>

\* the caller of the recorded call named a required parameter and passed no
\* value for it: no entry, or undefined, null or the empty string
Lacking(rec) ==
    \E i \in 1..Len(rec.requiredParams) :
        \/ rec.requiredParams[i] \notin EntryKeys(rec.params)
        \/ EntryOf(rec.params, rec.requiredParams[i]).value \in {VUndefined, VNull, VString("")}

\* the step is the issue of call c, which is refused with the caller-input
\* error of status 400 and leaves the store, the registry and the fetches
\* (no launch, no attempt) as they were
RefusedAsBadRequest(c) ==
    /\ calls'[c].mode = "rejected"
    /\ calls'[c].result.kind = "error"
    /\ calls'[c].result.code = "CTA_BUS_BAD_REQUEST"
    /\ calls'[c].result.status = 400
    /\ responseCache' = responseCache
    /\ inFlightRequests' = inFlightRequests
    /\ fetches' = fetches

\* C15 as claimed: every call that lacks a required parameter is refused with
\* the caller-input error of status 400, with no upstream attempt and no
\* change to the store or the registry.
C15_Original ==
    [][\A c \in 1..MaxCalls :
          (c \notin DOMAIN calls /\ c \in DOMAIN calls' /\ Lacking(calls'[c])) =>
              RefusedAsBadRequest(c)]_vars

\* C15 amended: when the credential is configured, every call that lacks a
\* required parameter is refused with the caller-input error of status 400,
\* with no upstream attempt and no change to the store or the registry,
\* whatever the store and the registry hold for its key.
C15_RefusedBeforeNetwork ==
    [][\A c \in 1..MaxCalls :
          (apiKeyConfigured /\ c \notin DOMAIN calls /\ c \in DOMAIN calls' /\ Lacking(calls'[c])) =>
              RefusedAsBadRequest(c)]_vars

\* C15 witness: a call passing an empty stop id was refused with status 400
\* while the store holds an unexpired entry and the registry a fetch for the
\* key it names.
C15_Witness ==
    \E c \in DOMAIN calls :
        /\ calls[c].params = <<Entry("stpid", VString(""))>>
        /\ calls[c].requiredParams = <<"stpid">>
        /\ calls[c].result.status = 400
        /\ "k1" \in DOMAIN inFlightRequests
        /\ "k1" \in DOMAIN responseCache
        /\ responseCache["k1"].expiresAt > now

\* C16: when the credential is not configured, every call is refused with
\* the local-configuration error of status 500, with no upstream attempt and
\* no change to the store or the registry, which stay empty.
C16_NoCredentialRefusesAll ==
    /\ [][\A c \in 1..MaxCalls :
            (~apiKeyConfigured /\ c \notin DOMAIN calls /\ c \in DOMAIN calls') =>
                /\ calls'[c].mode = "rejected"
                /\ calls'[c].result.kind = "error"
                /\ calls'[c].result.code = "CTA_BUS_CONFIG_MISSING"
                /\ calls'[c].result.status = 500
                /\ responseCache' = responseCache
                /\ inFlightRequests' = inFlightRequests
                /\ fetches' = fetches]_vars
    /\ [](~apiKeyConfigured =>
            (fetches = << >> /\ responseCache = << >> /\ inFlightRequests = << >>))

\* C16 witness: without the credential a well-formed call and a call that
\* lacks its required parameter were both refused with status 500.
C16_Witness ==
    /\ ~apiKeyConfigured
    /\ \E c, d \in DOMAIN calls :
          /\ ~Lacking(calls[c])
          /\ Lacking(calls[d])
          /\ calls[c].result.status = 500
          /\ calls[d].result.status = 500
          /\ calls[d].result.code = "CTA_BUS_CONFIG_MISSING"

\* a response sent by a catch block whose context sets no status
Caught == envelope.sent /\ envelope.via = "catch" /\ envelope.context.status = {}

\* C17: when a route catches the missing-credential error its envelope has
\* meta.status 500, when it catches the missing-parameter error its envelope
\* has meta.status 400, and the HTTP status of the response is the same.
C17_LocalStatusSurfaced ==
    Caught =>
        /\ (envelope.thrown = ConfigMissingError =>
                envelope.body.meta.status = {500} /\ envelope.status = {500})
        /\ (envelope.thrown \in {BadRequestError(key) : key \in {"rt", "stpid"}} =>
                envelope.body.meta.status = {400} /\ envelope.status = {400})

\* the detail of a failure names a code, named or spelled in [A-Z0-9_], and
\* has a message that is text
HasDetail(detail) ==
    /\ detail # Null
    /\ \/ /\ DOMAIN detail.code = {"named"}
          /\ detail.code.named \in
                {"CTA_BUS_UNKNOWN_ERROR", "CTA_BUS_ERROR", "CTA_BUS_API_ERROR", "CTA_BUS_CONFIG_MISSING",
                 "CTA_BUS_BAD_REQUEST", "CTA_BUS_HTTP_ERROR", "CTA_BUS_REQUEST_FAILED",
                 "CTA_BUS_INVALID_RESPONSE", "CTA_BUS_UNEXPECTED_SHAPE", "E42"}
                \cup {CTA_ERROR_MAPPINGS[i].code : i \in DOMAIN CTA_ERROR_MAPPINGS}
       \/ /\ DOMAIN detail.code = {"spelled"}
          /\ detail.code.spelled # <<>>
          /\ \A i \in DOMAIN detail.code.spelled :
                detail.code.spelled[i] \in DOMAIN ToLower \cup Digits \cup {"_"}
    /\ DOMAIN detail.message \subseteq 1..Len(detail.message)

\* meta names the endpoint, the time of the answer and a status
Populated(meta) ==
    /\ meta.ctaEndpoint = Endpoint
    /\ meta.queriedAt \in 0..now
    /\ meta.status # {}
    /\ meta.servedFromCache \in BOOLEAN

\* C18: every response carries meta and exactly one of data and error: a
\* response for a thrown value, whatever was thrown, and a refusal have data
\* null and an error detail with a code and a message; a response for a
\* returned result has error null and data that is an array.
C18_OneOfDataAndError ==
    envelope.sent =>
        /\ (envelope.body.data = Null) # (envelope.body.error = Null)
        /\ Populated(envelope.body.meta)
        /\ (envelope.via \in {"catch", "refuse"} =>
                envelope.body.data = Null /\ HasDetail(envelope.body.error))
        /\ (envelope.via = "return" =>
                envelope.body.error = Null /\ DOMAIN envelope.body.data = {"items"})

\* C18 witness: a route caught a thrown value that is no Error and answered
\* with data null and the default detail.
C18_Witness ==
    /\ envelope.sent
    /\ envelope.via = "catch"
    /\ envelope.thrown = NonError
    /\ envelope.body.data = Null
    /\ envelope.body.error.code = Named("CTA_BUS_UNKNOWN_ERROR")

\* a response for a hard upstream error list, from a context that sets no status
UpstreamFailure ==
    /\ Caught
    /\ envelope.thrown.kind = "error"
    /\ envelope.thrown.rawErrors # Undefined

\* the list the caught error carries
RawErrors == ErrorLists[envelope.thrown.rawErrors]

\* some message of the list matches the mapping's expression
Denotes(mapping) ==
    \E i \in DOMAIN RawErrors :
        RawErrors[i].msg # NoMsg /\ MatchesMapping(mapping, RawErrors[i].msg)

\* the status in meta and the HTTP status are both status
Surfaces(status) == envelope.body.meta.status = {status} /\ envelope.status = {status}

\* C19 as stated: 401 when a message denotes an API-key rejection, 429 when
\* one denotes a rate limit, 400 when one denotes an invalid parameter, 502
\* in every other case.
C19_Original ==
    UpstreamFailure =>
        /\ (Denotes(MapAuthError) => Surfaces(401))
        /\ (Denotes(MapRateLimit) => Surfaces(429))
        /\ (Denotes(MapInvalidParameter) => Surfaces(400))
        /\ (~Denotes(MapAuthError) /\ ~Denotes(MapRateLimit) /\ ~Denotes(MapInvalidParameter) =>
                Surfaces(502))

\* the positions of the messages that match the invalid-parameter, the
\* rate-limit or the API-key expression
Decisive ==
    {i \in DOMAIN RawErrors :
        /\ RawErrors[i].msg # NoMsg
        /\ \E mapping \in {MapInvalidParameter, MapRateLimit, MapAuthError} :
               MatchesMapping(mapping, RawErrors[i].msg)}

\* C19: for a hard upstream error list and a context without status, the
\* first message of the list that matches one of the three expressions
\* decides the status: 400 when it matches invalid parameter, else 429 when
\* it matches rate limit, else 401; the status is 502 when no message
\* matches.  The HTTP status equals meta.status.
C19_FirstMatchDecides ==
    UpstreamFailure =>
        IF Decisive = {} THEN Surfaces(502)
        ELSE LET i == CHOOSE j \in Decisive : \A k \in Decisive : j <= k
                 msg == RawErrors[i].msg
             IN IF MatchesMapping(MapInvalidParameter, msg) THEN Surfaces(400)
                ELSE IF MatchesMapping(MapRateLimit, msg) THEN Surfaces(429)
                ELSE Surfaces(401)

\* C19 witness: a list whose only message matches both the invalid-parameter
\* and the API-key expression was answered with 400.
C19_Witness ==
    /\ UpstreamFailure
    /\ envelope.thrown.rawErrors = "paramApiKey"
    /\ Denotes(MapAuthError)
    /\ Surfaces(400)

\* the code of the error detail in the response
SurfacedCode == envelope.body.error.code

\* the codes of the mappings whose expression matches msg
MappedCodes(msg) ==
    {Named(CTA_ERROR_MAPPINGS[m].code) :
        m \in {n \in DOMAIN CTA_ERROR_MAPPINGS : MatchesMapping(CTA_ERROR_MAPPINGS[n], msg)}}

\* C20 as stated: the surfaced code is the first upstream error's code, or,
\* when that error has no code, a code obtained from its message alone.
C20_Original ==
    UpstreamFailure =>
        LET first == RawErrors[1]
        IN IF first.code # Undefined THEN SurfacedCode = Named(first.code)
           ELSE first.msg # NoMsg =>
                    SurfacedCode \in {deriveCodeFromMessage(first.msg)} \cup MappedCodes(first.msg)

\* the positions of the messages that match a mapping
Matched == {i \in DOMAIN RawErrors : RawErrors[i].msg # NoMsg /\ MappedCodes(RawErrors[i].msg) # {}}

\* C20: for a hard upstream error list, the surfaced code is the code of the
\* first mapping matched by the first message of the list that matches any
\* mapping, even when the first error has a code of its own; when no message
\* matches it is the first error's code, or, when that error has no code,
\* the code derived from its message (upper case, other characters replaced
\* by underscores, at most 60 characters, CTA_BUS_ERROR when nothing is
\* left), or CTA_BUS_API_ERROR when it has no message either.
C20_CodeOfFirstMatch ==
    UpstreamFailure =>
        LET first == RawErrors[1]
        IN /\ IF Matched # {} THEN
                  LET i == CHOOSE j \in Matched : \A k \in Matched : j <= k
                      m == CHOOSE n \in DOMAIN CTA_ERROR_MAPPINGS :
                              /\ MatchesMapping(CTA_ERROR_MAPPINGS[n], RawErrors[i].msg)
                              /\ \A k \in 1..(n - 1) :
                                     ~MatchesMapping(CTA_ERROR_MAPPINGS[k], RawErrors[i].msg)
                  IN SurfacedCode = Named(CTA_ERROR_MAPPINGS[m].code)
              ELSE IF first.code # Undefined THEN SurfacedCode = Named(first.code)
              ELSE IF first.msg # NoMsg THEN SurfacedCode = deriveCodeFromMessage(first.msg)
              ELSE SurfacedCode = Named("CTA_BUS_API_ERROR")
           /\ (envelope.thrown.rawErrors = "hardKey" =>
                  SurfacedCode = Spelled(<<"I","N","V","A","L","I","D","_","A","P","I","_","A","C","C","E",
                                           "S","S","_","K","E","Y","_","S","U","P","P","L","I","E","D">>))
           /\ (envelope.thrown.rawErrors = "symbols" => SurfacedCode = Named("CTA_BUS_ERROR"))
           /\ (envelope.thrown.rawErrors = "long" => Len(SurfacedCode.spelled) = CODE_MAX_LENGTH)
           /\ (envelope.thrown.rawErrors = "authCoded" => SurfacedCode = Named("CTA_BUS_AUTH_ERROR"))

\* C20 witness: the first error has no code and a message that matches no
\* mapping, the second matches the API-key expression, and the response
\* names CTA_BUS_AUTH_ERROR.
C20_Witness ==
    /\ UpstreamFailure
    /\ envelope.thrown.rawErrors = "otherThenAuth"
    /\ RawErrors[1].code = Undefined
    /\ MappedCodes(RawErrors[1].msg) = {}
    /\ SurfacedCode = Named("CTA_BUS_AUTH_ERROR")

\* the last thing fetch f saw from the upstream
LastSeen(f) == fetches[f].log[Len(fetches[f].log)]

\* C21: no call ends with a raw exception.  An outcome is pending, or a
\* result {payload, meta}, or a BusClientError; and a settled fetch that
\* failed holds the BusClientError of its path: CTA_BUS_REQUEST_FAILED after
\* an abort, a network failure or another exception of fetch,
\* CTA_BUS_HTTP_ERROR after a status that is not ok, CTA_BUS_INVALID_RESPONSE,
\* CTA_BUS_UNEXPECTED_SHAPE or the hard upstream error after an ok response.
C21_OnlyClientErrors ==
    /\ \A c \in DOMAIN calls :
          LET o == Outcome(c)
          IN \/ o = Pending
             \/ o.kind = "success" /\ DOMAIN o = {"kind", "payload", "meta"}
             \/ o.kind = "error" /\ o.name = "BusClientError"
    /\ \A c \in DOMAIN calls :
          calls[c].mode = "rejected" =>
              Outcome(c) \in {ConfigMissingError} \cup {BadRequestError(key) : key \in {"stpid"}}
    /\ \A f \in DOMAIN fetches :
          (Settled(f) /\ fetches[f].result.kind # "success") =>
              /\ fetches[f].result.kind = "error"
              /\ fetches[f].result.name = "BusClientError"
              /\ fetches[f].result.code =
                    IF LastSeen(f).kind = "exception" THEN "CTA_BUS_REQUEST_FAILED"
                    ELSE IF ~ResponseOk(LastSeen(f)) THEN "CTA_BUS_HTTP_ERROR"
                    ELSE IF ~fetches[f].body.json THEN "CTA_BUS_INVALID_RESPONSE"
                    ELSE IF ~fetches[f].body.envelope THEN "CTA_BUS_UNEXPECTED_SHAPE"
                    ELSE "CTA_BUS_API_ERROR"

\* C21 witness: a leader and a joiner both ended with the BusClientError that
\* wraps a network exception of the last attempt.
C21_Witness ==
    \E c, d \in DOMAIN calls :
        /\ calls[c].mode = "lead"
        /\ calls[d].mode = "join"
        /\ calls[d].of = calls[c].of
        /\ SharedPromiseSettled(calls[c].of)
        /\ LastSeen(calls[c].of) = NetworkTypeError
        /\ Outcome(c).kind = "error"
        /\ Outcome(d) = Outcome(c)
        /\ Outcome(d).code = "CTA_BUS_REQUEST_FAILED"
        /\ Outcome(d).cause = "TypeError"

\* every attempt of fetch f so far was aborted by its timeout
AllAborted(f) ==
    /\ Len(fetches[f].log) > 0
    /\ \A i \in DOMAIN fetches[f].log : fetches[f].log[i] = AbortError

\* C22: an attempt aborted by its timeout is retried while retries remain
\* (the next attempt is sent and the fetch goes on); when every attempt was
\* aborted, the fetch fails only after exactly maxRetries + 1 attempts, with
\* the BusClientError CTA_BUS_REQUEST_FAILED of status 502 whose cause is the
\* abort.
C22_TimeoutIsTransient ==
    /\ [][\A f \in DOMAIN fetches :
            (/\ fetches[f].phase = "fetching"
             /\ fetches[f].attempt <= fetches[f].maxRetries
             /\ Len(fetches'[f].log) = Len(fetches[f].log) + 1
             /\ fetches'[f].log[Len(fetches'[f].log)] = AbortError) =>
                /\ fetches'[f].phase = "fetching"
                /\ fetches'[f].attempt = fetches[f].attempt + 1
                /\ fetches'[f].result = Pending]_vars
    /\ [](\A f \in DOMAIN fetches :
            AllAborted(f) =>
                IF Settled(f)
                THEN /\ Len(fetches[f].log) = fetches[f].maxRetries + 1
                     /\ fetches[f].result.kind = "error"
                     /\ fetches[f].result.code = "CTA_BUS_REQUEST_FAILED"
                     /\ fetches[f].result.status = 502
                     /\ fetches[f].result.cause = "AbortError"
                ELSE /\ Len(fetches[f].log) <= fetches[f].maxRetries
                     /\ fetches[f].attempt = Len(fetches[f].log) + 1)

\* C22 witness: with the default of two retries, three attempts were aborted
\* and the fetch failed with CTA_BUS_REQUEST_FAILED.
C22_Witness ==
    \E f \in DOMAIN fetches :
        /\ fetches[f].maxRetries = DEFAULT_MAX_RETRIES
        /\ AllAborted(f)
        /\ Len(fetches[f].log) = DEFAULT_MAX_RETRIES + 1
        /\ Settled(f)
        /\ fetches[f].result.code = "CTA_BUS_REQUEST_FAILED"

\* C23: invalidateBusCache removes from the cache exactly the entries whose
\* key the predicate accepts (all of them when it is omitted): the keys left
\* are those it rejects, each with the entry it had, and neither the registry
\* nor a running fetch (its history mark aside) nor a caller is touched.
C23_RemovesExactlyMatching ==
    [][\A matching \in SUBSET CacheKeys :
          invalidateBusCache(matching) =>
              /\ DOMAIN responseCache' = {k \in DOMAIN responseCache : k \notin matching}
              /\ \A k \in DOMAIN responseCache' : responseCache'[k] = responseCache[k]
              /\ DOMAIN fetches' = DOMAIN fetches
              /\ \A f \in DOMAIN fetches : Unmarked(fetches'[f]) = Unmarked(fetches[f])
              /\ UNCHANGED <<inFlightRequests, calls, now>>]_vars

\* C23 witness: both keys were cached by successful fetches; the entry of one
\* is gone (only an invalidation removes an entry) and the other is still the
\* one its fetch wrote.
C23_Witness ==
    \E f, g \in DOMAIN fetches :
        /\ fetches[f].key # fetches[g].key
        /\ fetches[f].wrote /\ fetches[g].wrote
        /\ fetches[f].key \notin DOMAIN responseCache
        /\ fetches[g].key \in DOMAIN responseCache
        /\ responseCache[fetches[g].key].value = fetches[g].result

\* the fetch whose payload the cache hit c was served
SourceOf(c) == calls[c].result.payload.src

\* C24 (as claimed): once invalidateBusCache has removed the entry of key k,
\* no later request for k is served from the cache a payload obtained by a
\* fetch launched before that invalidation, a fetch that was in flight at
\* the invalidation included.
C24_NoPayloadFromBeforeInvalidation ==
    \A c \in DOMAIN calls :
        calls[c].mode = "hit" => ~fetches[SourceOf(c)].invalidated

\* C25 (as claimed): a lookup that finds an entry whose expiresAt is not in
\* the future removes it: right after a call with caching enabled has looked
\* up a key whose entry had expired, the cache holds no entry for that key.
C25_ExpiredEntryRemovedByLookup ==
    [][\A c \in DOMAIN calls' \ DOMAIN calls :
          (/\ calls'[c].mode # "rejected"
           /\ calls'[c].ttl > 0
           /\ calls'[c].key \in DOMAIN responseCache
           /\ responseCache[calls'[c].key].expiresAt <= now) =>
              calls'[c].key \notin DOMAIN responseCache']_vars

\* C26: retries happen inside the fetch phase only. The one ok response of a
\* fetch is its last attempt; once the fetch has left the retry loop (ok
\* response or final error) no attempt is added, whatever the body turns out
\* to be; a call keeps the path it took at issue (hit, join or lead, and the
\* fetch it waits on), and a caller that launched or joined a fetch gets that
\* fetch's result, never a cached one.
C26_RetriesOnlyWhileFetching ==
    /\ [][ /\ \A f \in DOMAIN fetches :
              fetches[f].phase # "fetching" =>
                  /\ fetches'[f].phase # "fetching"
                  /\ fetches'[f].attempt = fetches[f].attempt
                  /\ fetches'[f].log = fetches[f].log
           /\ \A c \in DOMAIN calls : c \in DOMAIN calls' /\ calls'[c] = calls[c]]_vars
    /\ []( /\ \A f \in DOMAIN fetches :
              /\ \A i \in DOMAIN fetches[f].log :
                     (fetches[f].log[i].kind = "response" /\ ResponseOk(fetches[f].log[i])) =>
                         i = Len(fetches[f].log) /\ fetches[f].phase # "fetching"
              /\ Len(fetches[f].log) = IF fetches[f].phase = "fetching"
                                       THEN fetches[f].attempt - 1 ELSE fetches[f].attempt
           /\ \A c \in DOMAIN calls :
                 (calls[c].mode \in {"lead", "join"} /\ Outcome(c) # Pending) =>
                     /\ Outcome(c) = fetches[calls[c].of].result
                     /\ Outcome(c).kind = "success" => ~Outcome(c).meta.servedFromCache)

\* C26 witness: a fetch with a retry left got an ok response to its first
\* attempt, failed afterwards (body, envelope or hard upstream error) and is
\* over after that single attempt.
C26_Witness ==
    \E f \in DOMAIN fetches :
        /\ fetches[f].phase = "done"
        /\ fetches[f].maxRetries = 1
        /\ Len(fetches[f].log) = 1
        /\ fetches[f].log[1].kind = "response"
        /\ ResponseOk(fetches[f].log[1])
        /\ fetches[f].result.kind = "error"
        /\ fetches[f].result.code \in {"CTA_BUS_INVALID_RESPONSE", "CTA_BUS_UNEXPECTED_SHAPE", "CTA_BUS_API_ERROR"}

\* fetch f read an ok response's JSON body without an object under
\* "bustime-response"
Shapeless(f) == fetches[f].body.json /\ ~fetches[f].body.envelope

\* C27: a fetch whose ok response carries JSON without an envelope object
\* fails with CTA_BUS_UNEXPECTED_SHAPE; the step that reads the body leaves
\* the cache as it was, the fetch never writes, its .finally callback is due
\* and takes the key out of the registry, and its callers get that error.
C27_UnexpectedShapeIsFatal ==
    /\ [](\A f \in DOMAIN fetches :
            (Settled(f) /\ Shapeless(f)) =>
                /\ fetches[f].result = UnexpectedShapeError
                /\ fetches[f].result.code = "CTA_BUS_UNEXPECTED_SHAPE"
                /\ ~fetches[f].wrote
                /\ fetches[f].phase = "settled" =>
                       ENABLED (finallyRelease(f) /\ UNCHANGED <<request, envelope>>)
                /\ \A c \in DOMAIN calls :
                       (calls[c].of = f /\ Outcome(c) # Pending) =>
                           /\ Outcome(c) = UnexpectedShapeError
                           /\ ~(fetches[f].key \in DOMAIN inFlightRequests
                                 /\ inFlightRequests[fetches[f].key] = f))
    /\ [][\A f \in DOMAIN fetches :
            /\ (fetches[f].phase = "parsing" /\ Settled(f)' /\ Shapeless(f)') =>
                   responseCache' = responseCache
            /\ (fetches[f].phase = "settled" /\ Shapeless(f) /\ fetches'[f].phase = "done") =>
                   fetches[f].key \notin DOMAIN inFlightRequests']_vars

\* C27 witness: a fetch with caching enabled read an envelope-less body; it is
\* over, its key is neither cached nor registered, its caller has the error.
C27_Witness ==
    \E f \in DOMAIN fetches :
        /\ fetches[f].phase = "done"
        /\ Shapeless(f)
        /\ fetches[f].cacheTtlMs > 0
        /\ fetches[f].key \notin DOMAIN responseCache
        /\ fetches[f].key \notin DOMAIN inFlightRequests
        /\ Outcome(f).kind = "error"
        /\ Outcome(f).code = "CTA_BUS_UNEXPECTED_SHAPE"

\* the callers that joined a fetch another caller launched
Joiners == {c \in DOMAIN calls : calls[c].mode = "join"}

\* C28: a timed-out attempt never fails a joined caller. While the fetch it
\* joined is in its retry loop the joiner has no outcome, and the step in
\* which an attempt is aborted with retries left leaves it waiting; what it
\* gets in the end is the fetch's final result, the same the leader gets: an
\* error whose last attempt was aborted only after maxRetries + 1 attempts.
C28_JoinerOutlivesTimeouts ==
    /\ [][\A c \in Joiners :
            LET f == calls[c].of
            IN (/\ fetches[f].phase = "fetching"
                /\ fetches[f].attempt <= fetches[f].maxRetries
                /\ Len(fetches'[f].log) = Len(fetches[f].log) + 1
                /\ fetches'[f].log[Len(fetches'[f].log)] = AbortError) =>
                   /\ fetches'[f].phase = "fetching"
                   /\ Outcome(c) = Pending
                   /\ Outcome(c)' = Pending]_vars
    /\ [](\A c \in Joiners :
            LET f == calls[c].of
            IN /\ fetches[f].phase \in {"fetching", "parsing"} => Outcome(c) = Pending
               /\ Outcome(c) # Pending =>
                      /\ SharedPromiseSettled(f)
                      /\ Outcome(c) = fetches[f].result
                      /\ Outcome(c) = Outcome(f)
                      /\ LastSeen(f) = AbortError =>
                             /\ Len(fetches[f].log) = fetches[f].maxRetries + 1
                             /\ Outcome(c).kind = "error"
                             /\ Outcome(c).code = "CTA_BUS_REQUEST_FAILED")

\* C28 witness: the first attempt of the fetch a caller joined was aborted,
\* the retry was answered, and the joiner has the successful result.
C28_Witness ==
    \E c \in Joiners :
        /\ SharedPromiseSettled(calls[c].of)
        /\ Len(fetches[calls[c].of].log) = 2
        /\ fetches[calls[c].of].log[1] = AbortError
        /\ Outcome(c).kind = "success"
        /\ Outcome(c) = Outcome(calls[c].of)

\* call c has its outcome
Done(c) == c \in DOMAIN calls /\ Outcome(c) # Pending

\* C29: when every attempt is eventually answered or aborted, every call that
\* was issued (cache hit, joiner, leader or refused) eventually has an
\* outcome, a success result or a BusClientError, and keeps it; every fetch
\* launched eventually ends, after an ok response or after maxRetries + 1
\* attempts, never more.
C29_EveryCallSettlesOnce ==
    /\ \A c \in 1..Finishing.calls : (c \in DOMAIN calls) ~> Done(c)
    /\ \A f \in 1..Finishing.calls : (f \in DOMAIN fetches) ~> (f \in DOMAIN fetches /\ SharedPromiseSettled(f))
    /\ [][\A c \in DOMAIN calls : Done(c) => Done(c)' /\ Outcome(c)' = Outcome(c)]_vars
    /\ []( /\ \A c \in DOMAIN calls :
              Done(c) => \/ Outcome(c).kind = "success"
                         \/ Outcome(c).kind = "error" /\ Outcome(c).name = "BusClientError"
           /\ \A f \in DOMAIN fetches :
              /\ Len(fetches[f].log) <= fetches[f].maxRetries + 1
              /\ Settled(f) =>
                     \/ LastSeen(f).kind = "response" /\ ResponseOk(LastSeen(f))
                     \/ Len(fetches[f].log) = fetches[f].maxRetries + 1)

\* C29 witness: both callers have their outcome; one joined the fetch of the
\* other, whose attempts ran out with an abort.
C29_Witness ==
    /\ DOMAIN calls = 1..Finishing.calls
    /\ \A c \in DOMAIN calls : Done(c)
    /\ \E c \in Joiners :
          /\ Len(fetches[calls[c].of].log) = fetches[calls[c].of].maxRetries + 1
          /\ LastSeen(calls[c].of) = AbortError
          /\ Outcome(c).kind = "error"

\* what the map holds for key k, the empty set when it holds nothing
EntryAt(map, k) == IF k \in DOMAIN map THEN {map[k]} ELSE {}

\* C30: keys do not wait for each other. A call waits only on a fetch of its
\* own key; the path a new call takes depends on the cache entry and the
\* registry entry of its own key alone (hit on a fresh entry, else join a
\* registered fetch, else launch a fetch of its own, first attempt sent),
\* whatever is in flight for other keys; and a step in which a fetch
\* advances (attempt answered, body read, registry entry released) leaves the
\* cache entry and the registry entry of every other key as they were.
C30_KeysAreIndependent ==
    /\ [](\A c \in DOMAIN calls :
            calls[c].of # 0 => fetches[calls[c].of].key = calls[c].key)
    /\ [][ /\ \A c \in DOMAIN calls' \ DOMAIN calls :
              calls'[c].mode # "rejected" =>
                  LET k == calls'[c].key
                  IN calls'[c].mode =
                         IF calls'[c].ttl > 0 /\ k \in DOMAIN responseCache
                                             /\ responseCache[k].expiresAt > now THEN "hit"
                         ELSE IF k \in DOMAIN inFlightRequests THEN "join"
                         ELSE "lead"
           /\ \A c \in DOMAIN calls' \ DOMAIN calls :
              calls'[c].mode = "lead" =>
                  /\ c \notin DOMAIN fetches /\ c \in DOMAIN fetches'
                  /\ fetches'[c].key = calls'[c].key
                  /\ fetches'[c].phase = "fetching" /\ fetches'[c].attempt = 1
                  /\ inFlightRequests'[calls'[c].key] = c
           /\ \A f \in DOMAIN fetches :
              fetches'[f].phase # fetches[f].phase \/ fetches'[f].attempt # fetches[f].attempt =>
                  \A k \in CacheKeys \ {fetches[f].key} :
                      /\ EntryAt(responseCache', k) = EntryAt(responseCache, k)
                      /\ EntryAt(inFlightRequests', k) = EntryAt(inFlightRequests, k)]_vars

\* C30 witness: the fetch of one key is at its second attempt, still in the
\* registry; a later call for the other key launched its own fetch, which has
\* succeeded and been released meanwhile.
C30_Witness ==
    \E f, g \in DOMAIN fetches :
        /\ f < g
        /\ fetches[f].key # fetches[g].key
        /\ fetches[f].phase = "fetching" /\ fetches[f].attempt = 2
        /\ inFlightRequests[fetches[f].key] = f
        /\ calls[g].mode = "lead"
        /\ fetches[g].phase = "done"
        /\ Outcome(g).kind = "success"
        /\ fetches[g].key \notin DOMAIN inFlightRequests

\* the calls served from the cache
Hits == {c \in DOMAIN calls : calls[c].mode = "hit"}

\* C31: a cache hit leaves the store as it is. The step in which a call is
\* served from the cache changes no entry (payload, meta, expiresAt); every
\* stored entry is the result its fetch produced, servedFromCache false, and
\* expires when it did at its write, however many hits it has served.
C31_HitLeavesEntry ==
    /\ [][\A c \in DOMAIN calls' \ DOMAIN calls :
            calls'[c].mode = "hit" =>
                /\ responseCache' = responseCache
                /\ responseCache'[calls'[c].key].expiresAt = responseCache[calls'[c].key].expiresAt
                /\ calls'[c].result.payload = responseCache[calls'[c].key].value.payload]_vars
    /\ [](\A k \in DOMAIN responseCache :
            /\ ~responseCache[k].value.meta.servedFromCache
            /\ responseCache[k].value = fetches[responseCache[k].value.payload.src].result
            /\ responseCache[k].expiresAt = responseCache[k].value.meta.cacheExpiresAt)

\* C31 witness: two calls were served the same entry, which is still stored
\* with servedFromCache false and the expiry its fetch gave it.
C31_Witness ==
    \E c, d \in Hits :
        /\ c < d
        /\ SourceOf(c) = SourceOf(d)
        /\ calls[c].result.meta.servedFromCache /\ calls[d].result.meta.servedFromCache
        /\ calls[c].key \in DOMAIN responseCache
        /\ responseCache[calls[c].key].value = fetches[SourceOf(c)].result
        /\ ~responseCache[calls[c].key].value.meta.servedFromCache

\* the route caught a BusClientError, which is what callBusApi raises
CaughtClientError ==
    /\ envelope.sent
    /\ envelope.via = "catch"
    /\ envelope.thrown.kind = "error"
    /\ envelope.thrown.name = "BusClientError"

\* C32: the envelope mapBusApiError builds for an error callBusApi raised is
\* an error envelope whose meta.status is not 200, and the route does not
\* answer with HTTP 200; when the error carries an upstream error list, no
\* message of the list matches a mapping of status 200.
C32_NoErrorWithStatus200 ==
    CaughtClientError =>
        /\ envelope.body.error # Null
        /\ envelope.body.meta.status # {200}
        /\ envelope.status # {200}
        /\ envelope.thrown.rawErrors # Undefined =>
               \A i \in DOMAIN CTA_ERROR_MAPPINGS :
                   CTA_ERROR_MAPPINGS[i].status = 200 => ~Denotes(CTA_ERROR_MAPPINGS[i])

\* C32 witness: a hard upstream error whose list matches a mapping was
\* caught by a route whose context sets no status; the envelope carries the
\* mapping's status, which is not 200.
C32_Witness ==
    /\ CaughtClientError
    /\ envelope.context.status = {}
    /\ envelope.thrown.rawErrors # Undefined
    /\ \E i \in DOMAIN CTA_ERROR_MAPPINGS :
          /\ Denotes(CTA_ERROR_MAPPINGS[i])
          /\ Surfaces(CTA_ERROR_MAPPINGS[i].status)
          /\ CTA_ERROR_MAPPINGS[i].status # 200

\* the attempts of fetch f that were sent and have not settled
Outstanding(f) == fetches[f].attempt - Len(fetches[f].log)

\* C33: whatever the upstream does and whatever the retry budget, a fetch is
\* always at an attempt between 1 and maxRetries + 1; exactly one attempt is
\* outstanding while the fetch is in its loop and none once it has left it;
\* an attempt is sent only in the step in which the previous one settled; and
\* an ok response is the last attempt of its fetch.
C33_AttemptsBoundedAndSequential ==
    /\ [](\A f \in DOMAIN fetches :
            /\ 1 <= fetches[f].attempt
            /\ fetches[f].attempt <= fetches[f].maxRetries + 1
            /\ Outstanding(f) = IF fetches[f].phase = "fetching" THEN 1 ELSE 0
            /\ Settled(f) => Len(fetches[f].log) >= 1
            /\ \A i \in DOMAIN fetches[f].log :
                   (fetches[f].log[i].kind = "response" /\ ResponseOk(fetches[f].log[i])) =>
                       i = Len(fetches[f].log))
    /\ [][\A f \in DOMAIN fetches :
            /\ fetches'[f].attempt \in {fetches[f].attempt, fetches[f].attempt + 1}
            /\ fetches'[f].attempt = fetches[f].attempt + 1 =>
                   /\ Len(fetches'[f].log) = Len(fetches[f].log) + 1
                   /\ fetches[f].phase = "fetching"
                   /\ ~(LastSeen(f)'.kind = "response" /\ ResponseOk(LastSeen(f)'))]_vars

\* C33 witness: with the default budget, a fetch saw a timeout, a network
\* failure or an HTTP error on its first two attempts and an ok response on
\* its third, and is over after three attempts.
C33_Witness ==
    \E f \in DOMAIN fetches :
        /\ fetches[f].maxRetries = DEFAULT_MAX_RETRIES
        /\ Settled(f)
        /\ Len(fetches[f].log) = 3
        /\ fetches[f].log[1] = AbortError
        /\ fetches[f].log[2] \in {FetchError, NetworkTypeError, HttpResponse(503), HttpResponse(400)}
        /\ fetches[f].log[3] = HttpResponse(200)
        /\ Outstanding(f) = 0

\* C34: an attempt that ends with an exception that is neither an abort nor a
\* network failure nor a BusClientError ends the fetch in that step, retries
\* left or not, with CTA_BUS_REQUEST_FAILED of status 502 that keeps the
\* exception as its cause; no attempt follows.
C34_OtherExceptionNotRetried ==
    /\ [][\A f \in DOMAIN fetches :
            (/\ fetches[f].phase = "fetching"
             /\ Len(fetches'[f].log) = Len(fetches[f].log) + 1
             /\ LastSeen(f)' = OtherError) =>
                /\ fetches'[f].phase = "settled"
                /\ fetches'[f].attempt = fetches[f].attempt
                /\ fetches'[f].result.kind = "error"
                /\ fetches'[f].result.code = "CTA_BUS_REQUEST_FAILED"
                /\ fetches'[f].result.status = 502
                /\ fetches'[f].result.cause = OtherError.name]_vars
    /\ [](\A f \in DOMAIN fetches :
            \A i \in DOMAIN fetches[f].log :
                fetches[f].log[i] = OtherError =>
                    /\ i = Len(fetches[f].log)
                    /\ Failed(f)
                    /\ fetches[f].result.code = "CTA_BUS_REQUEST_FAILED")

\* C34 witness: with two retries left, the first attempt ended with such an
\* exception and the fetch failed after that single attempt.
C34_Witness ==
    \E f \in DOMAIN fetches :
        /\ fetches[f].maxRetries = DEFAULT_MAX_RETRIES
        /\ fetches[f].log = <<OtherError>>
        /\ fetches[f].attempt = 1
        /\ Failed(f)
        /\ fetches[f].result.code = "CTA_BUS_REQUEST_FAILED"
        /\ fetches[f].result.status = 502

\* some message of the list matches a soft pattern
SoftMatch(list) ==
    \E i \in DOMAIN ErrorLists[list] :
        /\ ErrorLists[list][i].msg # NoMsg
        /\ \E n \in DOMAIN SOFT_ERROR_PATTERNS :
              RegexTestI(SOFT_ERROR_PATTERNS[n].test, ErrorLists[list][i].msg)

\* fetch f read an envelope with a non-empty error array
ReadErrors(f) ==
    /\ Settled(f)
    /\ fetches[f].body.json /\ fetches[f].body.envelope
    /\ fetches[f].body.error # "absent"
    /\ Len(ErrorLists[fetches[f].body.error]) > 0

\* C35: a fetch that read a non-empty error array succeeds exactly when some
\* message of the array matches a soft pattern, wherever in the array it
\* stands: the result then has a reason and a payload without the array;
\* otherwise the fetch fails with a BusClientError that carries the array.
C35_SoftIffSomeMessageMatches ==
    \A f \in DOMAIN fetches :
        ReadErrors(f) =>
            /\ fetches[f].result.kind = "success" <=> SoftMatch(fetches[f].body.error)
            /\ fetches[f].result.kind = "success" =>
                   /\ fetches[f].result.meta.reason # Undefined
                   /\ fetches[f].result.payload.error = "absent"
            /\ fetches[f].result.kind # "success" =>
                   /\ fetches[f].result.kind = "error"
                   /\ fetches[f].result.name = "BusClientError"
                   /\ fetches[f].result.rawErrors = fetches[f].body.error

\* C35 witness: the array starts with an API-key rejection and goes on with
\* "no arrival times"; the caller has a success with the reason of the latter.
C35_Witness ==
    \E f \in DOMAIN fetches :
        /\ ReadErrors(f)
        /\ fetches[f].body.error = "mixed"
        /\ SharedPromiseSettled(f)
        /\ Outcome(f).kind = "success"
        /\ Outcome(f).meta.reason = "No arrival times available."
        /\ Outcome(f).payload.error = "absent"

\* the callers that joined fetch f
JoinersOf(f) == {c \in Joiners : calls[c].of = f}

\* C36: caching of a shared fetch follows the leader's cacheTtlMs alone. The
\* fetch of a leader with cacheTtlMs = 0 never writes the store, whoever joined
\* it; the step in which the fetch of a leader with cacheTtlMs > 0 succeeds
\* stores an entry that expires the leader's cacheTtlMs after the write,
\* whatever the joiners asked for.
C36_LeaderTtlDecides ==
    /\ [](\A f \in DOMAIN fetches :
            /\ fetches[f].cacheTtlMs = calls[f].ttl
            /\ calls[f].ttl = 0 => ~fetches[f].wrote
            /\ (Settled(f) /\ calls[f].ttl > 0 /\ fetches[f].result.kind = "success") =>
                   fetches[f].wrote)
    /\ [][\A f \in DOMAIN fetches :
            (fetches[f].phase = "parsing" /\ Settled(f)') =>
                IF calls[f].ttl = 0 THEN responseCache' = responseCache
                ELSE /\ fetches'[f].result.kind = "success"
                     /\ responseCache'[fetches[f].key].value = fetches'[f].result
                     /\ responseCache'[fetches[f].key].expiresAt = now' + calls[f].ttl
                     /\ \A c \in JoinersOf(f) :
                            calls[c].ttl # calls[f].ttl =>
                                responseCache'[fetches[f].key].expiresAt # now' + calls[c].ttl]_vars

\* C36 witness: a caller with cacheTtlMs > 0 joined the fetch of a leader with
\* cacheTtlMs = 0; both have the successful result and the fetch wrote nothing.
C36_Witness ==
    \E f \in DOMAIN fetches :
        /\ calls[f].ttl = 0
        /\ SharedPromiseSettled(f)
        /\ \E c \in JoinersOf(f) :
              /\ calls[c].ttl > 0
              /\ Outcome(c).kind = "success"
              /\ Outcome(c) = Outcome(f)
        /\ ~fetches[f].wrote
        /\ \A k \in DOMAIN responseCache : responseCache[k].value.payload.src # f

\* the cases of C36 with a caching leader: a joiner asked for a shorter or a
\* longer lifetime than the leader, and the entry has the leader's
LeaderTtlKept ==
    \E f \in DOMAIN fetches :
        /\ fetches[f].wrote
        /\ \E c \in JoinersOf(f) : calls[c].ttl > calls[f].ttl
        /\ \E c \in JoinersOf(f) : calls[c].ttl < calls[f].ttl

\* C37: a result says servedFromCache exactly when its call was answered from
\* the store without waiting on a fetch: every cache hit has it true, the
\* leader of a fetch and every caller that joined it have it false.
C37_ServedFromCacheIffHit ==
    \A c \in DOMAIN calls :
        (Outcome(c) # Pending /\ Outcome(c).kind = "success") =>
            /\ Outcome(c).meta.servedFromCache <=> c \in Hits
            /\ c \in Hits <=> calls[c].of = 0
            /\ calls[c].mode \in {"lead", "join"} => ~Outcome(c).meta.servedFromCache

\* C37 witness: a leader, a caller that joined its fetch and a later caller
\* served from the entry the fetch wrote: false, false and true.
C37_Witness ==
    \E l, j, h \in DOMAIN calls :
        /\ calls[l].mode = "lead" /\ calls[j].mode = "join" /\ calls[h].mode = "hit"
        /\ calls[j].of = l
        /\ SharedPromiseSettled(l)
        /\ SourceOf(h) = l
        /\ Outcome(l).kind = "success" /\ ~Outcome(l).meta.servedFromCache
        /\ ~Outcome(j).meta.servedFromCache
        /\ Outcome(h).meta.servedFromCache
        /\ Outcome(h).payload = Outcome(l).payload

\* the texts of a parameter object, names and values
TextsOf(entries) == EntryKeys(entries) \cup {entries[i].value : i \in 1..Len(entries)}

\* the caller passed no parameter named key
NoKeyPassed == "key" \notin EntryKeys(request.params)

\* C38: for a request whose caller passed no parameter named key, the
\* credential goes into the parameters of the upstream request and nowhere
\* else: neither it nor the name key is a piece of the derived cache key, an
\* entry of meta.params or an entry of the params of an error.
C38_CredentialStaysUpstream ==
    NoKeyPassed =>
        /\ EntryOf(requestParams(request), "key").value = CTA_BUS_TRACKER_API_KEY
        /\ \A i \in DOMAIN DerivedKey(request) :
               DerivedKey(request)[i] \notin {CTA_BUS_TRACKER_API_KEY, "key"}
        /\ TextsOf(MetaParams(request)) \cap {CTA_BUS_TRACKER_API_KEY, "key"} = {}
        /\ \A params \in ErrorParams(request) :
               TextsOf(params) \cap {CTA_BUS_TRACKER_API_KEY, "key"} = {}

\* C38 witness: a request for stop 7 with a derived cache key; the upstream
\* parameters carry the credential, the cache key and meta.params do not.
C38_Witness ==
    /\ NoKeyPassed
    /\ request.cacheKey = Undefined
    /\ request.params = <<Entry("stpid", VString("7"))>>
    /\ requestParams(request) =
           <<Entry("stpid", "7"), Entry("rtpidatafeed", "ctabus"), Entry("format", "json"),
             Entry("key", CTA_BUS_TRACKER_API_KEY)>>
    /\ MetaParams(request) = <<Entry("stpid", "7"), Entry("rtpidatafeed", "ctabus"), Entry("format", "json")>>
    /\ DerivedKey(request) =
           <<Endpoint, "?", "format", "=", "json", "&", "rtpidatafeed", "=", "ctabus", "&", "stpid", "=", "7">>
====
